---- MODULE Spec2Model ----
(***************************************************************************)
(* Model of the machine_rules engine: Rule / RuleExecutionSet             *)
(* (api/execution_set.py) and the session, administrator and runtime of   *)
(* adapters/machine_adapter.py.                                            *)
(*                                                                         *)
(* Callables (Rule.condition, Rule.action) are modelled as tagged          *)
(* behaviours evaluated by CondEval / ActEval; "raise" stands for raising  *)
(* an Exception subclass, the only failures `except Exception` catches.    *)
(***************************************************************************)
EXTENDS Integers, Sequences, FiniteSets, TLC

VARIABLES
    registrations,  \* MachineRuleAdministrator.registrations: name -> RuleExecutionSet
    sessions,       \* the MachineRuleSession objects created so far: id -> session
    last,           \* the most recent API call: operation, arguments, outcome, pre-state
    held,           \* the mutable list or dict a caller holds on to: an argument it
                    \* passed or a value it was returned
    owners,         \* per session, its single owner: where the owner is in execute(),
                    \* and the session as the owner's calls alone would have left it
    providers,      \* RuleServiceProviderManager._providers: uri -> provider
    engines,        \* the MachineRuleServiceProvider objects created so far:
                    \* provider -> the registrations of its administrator
    threads,        \* the threads that call into a registry concurrently: the call
                    \* each is in and how far it has got
    lock            \* MachineRuleAdministrator._lock: the thread that holds it, or "free"

\* the part of the state the calls of a single caller on one engine work on
sessionVars == <<registrations, sessions, held, owners>>

\* the provider registry, the providers, and the threads of concurrent callers
processVars == <<providers, engines, threads, lock>>

vars == <<registrations, sessions, last, held, owners, providers, engines, threads, lock>>

----------------------------------------------------------------------------
(* Bounds *)

\* longest rule list handed to the RuleExecutionSet constructor
MaxRules == 3
\* longest pending-fact buffer explored
MaxFacts == 2

----------------------------------------------------------------------------
(* safe_eval *)

\* A str is the sequence of its characters.
\* the lower-case letter of every upper-case letter
LowerOf ==
    LET UpperCase == <<"A", "B", "C", "D", "E", "F", "G", "H", "I", "J", "K", "L", "M", "N", "O", "P", "Q", "R", "S", "T", "U", "V", "W", "X", "Y", "Z">>
        LowerCase == <<"a", "b", "c", "d", "e", "f", "g", "h", "i", "j", "k", "l", "m", "n", "o", "p", "q", "r", "s", "t", "u", "v", "w", "x", "y", "z">>
    IN  [c \in { UpperCase[i] : i \in 1..Len(UpperCase) } |->
            LowerCase[CHOOSE i \in 1..Len(UpperCase) : UpperCase[i] = c]]

\* str.lower(), one character
Lower(c) == IF c \in DOMAIN LowerOf THEN LowerOf[c] ELSE c

\* str.lower()
LowerText(text) == [i \in 1..Len(text) |-> Lower(text[i])]

\* pattern in text
Contains(text, pattern) ==
    \E i \in 1..(Len(text) - Len(pattern) + 1) :
        SubSeq(text, i, i + Len(pattern) - 1) = pattern

\* not text.strip()
IsBlank(text) == \A i \in 1..Len(text) : text[i] = " "

\* dangerous_patterns
DangerousPatterns ==
    << <<"_", "_", "i", "m", "p", "o", "r", "t", "_", "_">>,
       <<"_", "_", "b", "u", "i", "l", "t", "i", "n", "s", "_", "_">>,
       <<"e", "v", "a", "l">>,
       <<"e", "x", "e", "c">>,
       <<"c", "o", "m", "p", "i", "l", "e">>,
       <<"o", "p", "e", "n">>,
       <<"_", "_", "c", "l", "a", "s", "s", "_", "_">>,
       <<"_", "_", "b", "a", "s", "e", "_", "_">>,
       <<"_", "_", "s", "u", "b", "c", "l", "a", "s", "s", "e", "s", "_", "_">>,
       <<"_", "_", "g", "l", "o", "b", "a", "l", "s", "_", "_">>,
       <<"_", "_", "c", "o", "d", "e", "_", "_">>,
       <<"l", "a", "m", "b", "d", "a">> >>

\* the expression argument: a str, or an object of another type
TextArg(text) == [isStr |-> TRUE, text |-> text]
NotText == [isStr |-> FALSE, text |-> <<>>]

\* a check that compares the expression as written with the patterns
PreFilterCaseSensitive(text) ==
    \E i \in 1..Len(DangerousPatterns) : Contains(text, DangerousPatterns[i])

\* the loop over dangerous_patterns: pattern.lower() in expression.lower()
PreFilter(text) ==
    LET expression_lower == LowerText(text)
    IN  \E i \in 1..Len(DangerousPatterns) :
            LET pattern == LowerText(DangerousPatterns[i])
            IN  Contains(expression_lower, pattern)

\* What EvalWithCompoundTypes(names=names).eval(expression) does, seen from safe_eval:
\* it returns a value or raises an exception of one of these classes.
EvaluatorOutcomes == {"value", "NameNotDefined", "FunctionNotDefined",
                      "AttributeDoesNotExist", "FeatureNotAvailable", "SyntaxError",
                      "ZeroDivisionError", "TypeError", "ValueError", "IndexError"}

\* except clauses that keep an error kind of its own for what is no security matter
EvaluationErrorDistinct(outcome) ==
    IF outcome \in {"FunctionNotDefined", "AttributeDoesNotExist", "FeatureNotAvailable"}
    THEN "SecurityError"
    ELSE IF outcome = "SyntaxError"
    THEN "ValueError"
    ELSE "EvaluationError"

\* the except clauses around the evaluation
EvaluationError(outcome) ==
    IF outcome \in {"NameNotDefined", "FunctionNotDefined", "AttributeDoesNotExist"}
    THEN "SecurityError"
    ELSE IF outcome = "SyntaxError"
    THEN "ValueError"
    ELSE "SecurityError"

\* the outcome of safe_eval: the exception raised, whether the evaluator was given the
\* expression, and what the evaluator answered ("-" when it was not reached)
Outcome(raised, cause) == [raised |-> raised, evaluated |-> cause # "-", cause |-> cause]

\* safe_eval(expression, names), with simpleeval importable or not, the evaluator
\* answering with outcome where it is reached
SafeEval(available, expression, names, outcome) ==
    IF ~available
    THEN Outcome("ImportError", "-")
    ELSE IF ~expression.isStr
    THEN Outcome("ValueError", "-")
    ELSE IF IsBlank(expression.text)
    THEN Outcome("ValueError", "-")
    ELSE IF PreFilter(expression.text)
    THEN Outcome("SecurityError", "-")
    ELSE IF outcome = "value"
    THEN Outcome("none", outcome)
    ELSE Outcome(EvaluationError(outcome), outcome)

----------------------------------------------------------------------------
(* The evaluator safe_eval hands the expression to *)

\* An expression as the evaluator reads it: the syntax tree of its text. A node has a
\* class, a piece of text of its own (an identifier, an operator, a literal, the blanks
\* in front of a call's parenthesis) and its operand nodes.
Node(node, id, args) == [node |-> node, id |-> id, args |-> args]

\* the text an expression stands for
RECURSIVE Unparse(_)
Unparse(t) ==
    CASE t.node \in {"Num", "Name", "None"} -> t.id
      [] t.node = "Str"       -> <<"'">> \o t.id \o <<"'">>
      [] t.node = "Tuple"     -> <<"(", ")">>
      [] t.node \in {"BinOp", "Compare"} -> Unparse(t.args[1]) \o t.id \o Unparse(t.args[2])
      [] t.node = "Call"      -> (IF t.args[1].node = "Lambda"
                                  THEN <<"(">> \o Unparse(t.args[1]) \o <<")">>
                                  ELSE Unparse(t.args[1])) \o t.id \o <<"(">>
                                    \o (IF Len(t.args) > 1 THEN Unparse(t.args[2]) ELSE <<>>)
                                    \o <<")">>
      [] t.node = "Attribute" -> Unparse(t.args[1]) \o <<".">> \o t.id
      [] t.node = "Subscript" -> Unparse(t.args[1]) \o <<"[">> \o Unparse(t.args[2]) \o <<"]">>
      [] t.node = "Lambda"    -> <<"l", "a", "m", "b", "d", "a", " ">> \o t.id \o <<":", " ">>
                                    \o Unparse(t.args[1])

\* a Python value: its type and, for an int or a bool, its number; for a str or a
\* tuple, its length
PyValue(type, v) == [type |-> type, v |-> v]
PyNone == PyValue("NoneType", 0)

\* bool(value)
Truthy(value) ==
    CASE value.type \in {"int", "bool", "str", "tuple"} -> value.v # 0
      [] value.type = "NoneType" -> FALSE
      [] OTHER -> TRUE

\* the evaluation of a node returns a value or raises
Return(value) == [outcome |-> "value", value |-> value]
Raise(outcome) == [outcome |-> outcome, value |-> PyNone]

\* the evaluator's functions: rand, randint, int, float, str
DefaultFunctions ==
    { <<"r", "a", "n", "d">>, <<"r", "a", "n", "d", "i", "n", "t">>, <<"i", "n", "t">>,
      <<"f", "l", "o", "a", "t">>, <<"s", "t", "r">> }

\* the attribute names the evaluator refuses: those that start with _ or func_
DisallowPrefixes == { <<"_">>, <<"f", "u", "n", "c", "_">> }

StartsWith(text, prefix) ==
    Len(prefix) <= Len(text) /\ SubSeq(text, 1, Len(prefix)) = prefix

\* an evaluator that also calls what the caller's names are bound to
CalledFunctionOrName(id, names) == id \in DefaultFunctions \cup DOMAIN names

\* a call by name finds its function in the evaluator's functions, which safe_eval
\* leaves at their default; the names of the caller are not looked at
CalledFunction(id, names) == id \in DefaultFunctions

\* the call of a function of the evaluator on the value of its argument
CallFunction(id, argument) ==
    CASE id = <<"s", "t", "r">> -> Return(PyValue("str", 1))
      [] id \in {<<"i", "n", "t">>, <<"f", "l", "o", "a", "t">>} ->
            IF argument.type \in {"int", "bool"} THEN Return(PyValue("int", argument.v))
            ELSE IF argument.type = "str" THEN Raise("ValueError")
            ELSE Raise("TypeError")
      [] OTHER -> Return(PyValue("int", 0))

\* the call of a value
CallValue(func) ==
    IF func.type \in {"function", "method"} THEN Return(PyValue("int", 0)) ELSE Raise("TypeError")

\* the left operand, the operator and the right operand of an arithmetic node or a
\* comparison
Operate(left, op, right) ==
    IF left.type \notin {"int", "bool"} \/ right.type \notin {"int", "bool"}
    THEN Raise("TypeError")
    ELSE CASE op = <<"+">> -> Return(PyValue("int", left.v + right.v))
           [] op = <<"/">> -> IF right.v = 0
                              THEN Raise("ZeroDivisionError")
                              ELSE Return(PyValue("int", left.v \div right.v))
           [] op = <<">">> -> Return(PyValue("bool", IF left.v > right.v THEN 1 ELSE 0))

\* EvalWithCompoundTypes(names=names).eval(expression) on the tree of the expression:
\* the value it returns or the exception it raises
RECURSIVE Evaluate(_, _)
Evaluate(t, names) ==
    CASE t.node = "Num"  -> Return(PyValue("int", CHOOSE n \in 0..9 : t.id = <<ToString(n)>>))
      [] t.node = "None" -> Return(PyNone)
      [] t.node = "Str"  -> Return(PyValue("str", Len(t.id)))
      [] t.node = "Tuple" -> Return(PyValue("tuple", 0))
      [] t.node = "Name" ->
            IF t.id \in DOMAIN names THEN Return(names[t.id])
            ELSE IF t.id \in DefaultFunctions THEN Return(PyValue("function", 0))
            ELSE Raise("NameNotDefined")
      [] t.node \in {"BinOp", "Compare"} ->
            LET left == Evaluate(t.args[1], names)
            IN  IF left.outcome # "value" THEN left
                ELSE LET right == Evaluate(t.args[2], names)
                     IN  IF right.outcome # "value" THEN right
                         ELSE Operate(left.value, t.id, right.value)
      [] t.node = "Call" ->
            LET func == t.args[1]
                argument == IF Len(t.args) > 1 THEN Evaluate(t.args[2], names) ELSE Return(PyNone)
            IN  IF func.node = "Attribute"
                THEN LET f == Evaluate(func, names)
                     IN  IF f.outcome # "value" THEN f
                         ELSE IF argument.outcome # "value" THEN argument
                         ELSE CallValue(f.value)
                ELSE IF func.node # "Name" THEN Raise("FeatureNotAvailable")
                ELSE IF ~CalledFunction(func.id, names) THEN Raise("FunctionNotDefined")
                ELSE IF argument.outcome # "value" THEN argument
                ELSE IF func.id \in DefaultFunctions THEN CallFunction(func.id, argument.value)
                ELSE CallValue(names[func.id])
      [] t.node = "Attribute" ->
            IF \E prefix \in DisallowPrefixes : StartsWith(t.id, prefix)
            THEN Raise("FeatureNotAvailable")
            ELSE LET value == Evaluate(t.args[1], names)
                 IN  IF value.outcome # "value" THEN value
                     ELSE IF value.value.type = "tuple" /\ t.id = <<"c", "o", "u", "n", "t">>
                     THEN Return(PyValue("method", 0))
                     ELSE Raise("AttributeDoesNotExist")
      [] t.node = "Subscript" ->
            LET value == Evaluate(t.args[1], names)
            IN  IF value.outcome # "value" THEN value
                ELSE LET index == Evaluate(t.args[2], names)
                     IN  IF index.outcome # "value" THEN index
                         ELSE IF value.value.type \notin {"str", "tuple"} \/ index.value.type # "int"
                         THEN Raise("TypeError")
                         ELSE IF index.value.v >= value.value.v
                         THEN Raise("IndexError")
                         ELSE Return(PyValue(value.value.type, 1))
      [] t.node = "Lambda" -> Raise("FeatureNotAvailable")

\* safe_eval(expression, names) on the text of a tree: what it raises, what the evaluator
\* answered, and the value it returns
SafeEvalOf(available, tree, names) ==
    LET e == Evaluate(tree, names)
        r == SafeEval(available, TextArg(Unparse(tree)), names, e.outcome)
    IN  [ raised |-> r.raised, evaluated |-> r.evaluated, cause |-> r.cause,
          value |-> IF r.raised = "none" THEN e.value ELSE PyNone ]

\* {'fact': fact}
FactNames(fact) == <<"f", "a", "c", "t">> :> PyValue("int", fact)

\* condition_func(fact) of _create_rule_from_definition, as the engine's `if` reads it
ConditionFunc(condition_expr, fact) ==
    LET r == SafeEvalOf(TRUE, condition_expr, FactNames(fact))
    IN  IF r.raised = "SecurityError" THEN "false"
        ELSE IF r.raised # "none" THEN "false"
        ELSE IF Truthy(r.value) THEN "true"
        ELSE "false"

\* action_func(fact) of _create_rule_from_definition
ActionFunc(action_expr, fact) ==
    LET r == SafeEvalOf(TRUE, action_expr, FactNames(fact))
    IN  IF r.raised = "SecurityError" THEN [kind |-> "none", val |-> <<>>]
        ELSE IF r.raised # "none" THEN [kind |-> "none", val |-> <<>>]
        ELSE IF r.value = PyNone THEN [kind |-> "none", val |-> <<>>]
        ELSE [kind |-> "value", val |-> r.value]

----------------------------------------------------------------------------
(* Values *)

\* facts are opaque records; two distinguishable ones suffice for the conditions below
FactValues == {1, 2}

SessionIds == {"s1"}

MkRule(n, p, c, a) == [name |-> n, priority |-> p, condition |-> c, action |-> a]

\* Rule objects the callers build: equal priorities, conditions that hold, fail to
\* hold or raise, actions that return a value, return None or raise.
RulePool ==
    { MkRule("a", 10, "always", "tag"),
      MkRule("b", 10, "big",    "tag"),
      MkRule("c", 5,  "always", "none"),
      MkRule("d", 5,  "raises", "tag"),
      MkRule("e", 10, "always", "raises"),
      MkRule("f", 1,  "always", "tag"),
      MkRule("g", 5,  "big",    "none") }

RuleNamed(n) == CHOOSE r \in RulePool : r.name = n

\* rule.condition(fact): "true", "false" or "raise"
CondEval(rule, fact) ==
    CASE rule.condition = "always" -> "true"
      [] rule.condition = "never"  -> "false"
      [] rule.condition = "big"    -> IF fact >= 2 THEN "true" ELSE "false"
      [] rule.condition = "raises" -> "raise"
      [] rule.condition = "condition_func" -> rule.condition_func[fact]

\* rule.action(fact): a value, None, or raise
ActEval(rule, fact) ==
    CASE rule.action = "tag"    -> [kind |-> "value", val |-> <<rule.name, fact>>]
      [] rule.action = "none"   -> [kind |-> "none",  val |-> <<>>]
      [] rule.action = "raises" -> [kind |-> "raise", val |-> <<>>]
      [] rule.action = "action_func" -> rule.action_func[fact]

SeqsUpTo(S, n) == UNION { [1..k -> S] : k \in 0..n }

----------------------------------------------------------------------------
(* Python dict helpers *)

EmptyDict == [k \in {} |-> ""]

DictGet(d, k, default) == IF k \in DOMAIN d THEN d[k] ELSE default

\* the `properties` argument of RuleExecutionSet: None or a dict
NoneProps == [isNone |-> TRUE, dict |-> EmptyDict]
DictProps(d) == [isNone |-> FALSE, dict |-> d]

PropInputs ==
    { NoneProps, DictProps(EmptyDict),
      DictProps([strategy |-> "ALL_MATCHES"]),
      DictProps([strategy |-> "FIRST_MATCH"]) }

----------------------------------------------------------------------------
(* RuleExecutionSet *)

\* number of leading rules of a priority-descending list whose priority is >= p
RECURSIVE LeadingAtLeast(_, _)
LeadingAtLeast(rules, p) ==
    IF rules = <<>> \/ Head(rules).priority < p
    THEN 0
    ELSE 1 + LeadingAtLeast(Tail(rules), p)

InsertAt(rules, k, r) == SubSeq(rules, 1, k) \o <<r>> \o SubSeq(rules, k + 1, Len(rules))

\* unstable variant: the rule goes in front of the rules of equal priority
InsertBeforeEqual(sortedRules, r) ==
    InsertAt(sortedRules, LeadingAtLeast(sortedRules, r.priority + 1), r)

\* one step of sorted(..., reverse=True): the rule goes behind every rule of
\* priority >= its own, so equal priorities keep their input order
InsertByPriority(sortedRules, r) ==
    InsertAt(sortedRules, LeadingAtLeast(sortedRules, r.priority), r)

\* sorted(rules, key=lambda r: r.priority, reverse=True)
RECURSIVE SortedByPriority(_)
SortedByPriority(rules) ==
    IF rules = <<>>
    THEN <<>>
    ELSE InsertByPriority(SortedByPriority(SubSeq(rules, 1, Len(rules) - 1)),
                          rules[Len(rules)])

\* RuleExecutionSet.__init__
RuleExecutionSet(name, rules, properties) ==
    [ name       |-> name,
      rules      |-> SortedByPriority(rules),
      properties |-> IF properties.isNone \/ properties.dict = EmptyDict
                     THEN EmptyDict
                     ELSE properties.dict ]

GetRules(es) == es.rules

GetProperties(es) == es.properties

----------------------------------------------------------------------------
(* The YAML loader and its schema *)

\* A value of the document: absent, a str (its characters, and for an expression the
\* tree its text parses to), an int, or a list.
Absent == [kind |-> "missing", text |-> <<>>, n |-> 0]
StrOf(text) == [kind |-> "str", text |-> text, n |-> 0]
IntOf(n) == [kind |-> "int", text |-> <<>>, n |-> n]
Expr(tree) == [kind |-> "str", text |-> Unparse(tree), tree |-> tree]

\* the patterns of validate_expression_safety: a word, followed or not by \s*\(
SchemaPatterns ==
    << [word |-> <<"_", "_", "i", "m", "p", "o", "r", "t", "_", "_">>, call |-> FALSE],
       [word |-> <<"e", "v", "a", "l">>, call |-> TRUE],
       [word |-> <<"e", "x", "e", "c">>, call |-> TRUE],
       [word |-> <<"c", "o", "m", "p", "i", "l", "e">>, call |-> TRUE],
       [word |-> <<"_", "_", "b", "u", "i", "l", "t", "i", "n", "s", "_", "_">>, call |-> FALSE],
       [word |-> <<"o", "p", "e", "n">>, call |-> TRUE],
       [word |-> <<"f", "i", "l", "e">>, call |-> TRUE] >>

\* re.search(pattern, v, re.IGNORECASE)
ReSearch(pattern, v) ==
    LET lower == LowerText(v)
    IN  \E i \in 1..(Len(lower) - Len(pattern.word) + 1) :
            /\ SubSeq(lower, i, i + Len(pattern.word) - 1) = pattern.word
            /\ pattern.call =>
                  \E k \in (i + Len(pattern.word))..Len(lower) :
                      /\ lower[k] = "("
                      /\ \A b \in (i + Len(pattern.word))..(k - 1) : lower[b] = " "

\* validate_expression_safety raises ValueError for v
ValidateExpressionSafety(v) ==
    \E i \in 1..Len(SchemaPatterns) : ReSearch(SchemaPatterns[i], v)

\* a str field with min_length=1
ValidStr(field) == field.kind = "str" /\ Len(field.text) >= 1

\* an int field: an int, or a str that reads as one
ValidInt(field) ==
    \/ field.kind = "int"
    \/ /\ field.kind = "str"
       /\ Len(field.text) >= 1
       /\ \A i \in 1..Len(field.text) : \E d \in 0..9 : field.text[i] = ToString(d)

RECURSIVE IntOfText(_)
IntOfText(text) ==
    IF text = <<>>
    THEN 0
    ELSE 10 * IntOfText(SubSeq(text, 1, Len(text) - 1))
            + (CHOOSE d \in 0..9 : text[Len(text)] = ToString(d))

\* RuleDefinition: the document's rule is accepted
ValidRuleDefinition(rule) ==
    /\ ValidStr(rule.name)
    /\ ValidStr(rule.condition) /\ ~ValidateExpressionSafety(rule.condition.text)
    /\ ValidStr(rule.action) /\ ~ValidateExpressionSafety(rule.action.text)
    /\ rule.priority.kind = "missing" \/ ValidInt(rule.priority)

\* RuleDefinition: the validated model, dumped
RuleModelDump(rule) ==
    [ name |-> rule.name.text,
      condition |-> rule.condition.tree,
      action |-> rule.action.tree,
      priority |-> IF rule.priority.kind = "missing" THEN 0
                   ELSE IF rule.priority.kind = "int" THEN rule.priority.n
                   ELSE IntOfText(rule.priority.text) ]

\* a validation that keeps the rules it accepts and drops the others
ModelValidateDroppingRules(data) ==
    LET listed == data.rules.kind = "list"
        kept   == IF listed THEN SelectSeq(data.rules.items, ValidRuleDefinition) ELSE <<>>
    IN  [ ok |-> ValidStr(data.name) /\ listed,
          name |-> data.name.text,
          rules |-> [i \in 1..Len(kept) |-> RuleModelDump(kept[i])] ]

\* RuleSetDefinition.model_validate(data): ok, or ValidationError
ModelValidate(data) ==
    LET ok == /\ ValidStr(data.name)
              /\ data.rules.kind = "list"
              /\ \A i \in 1..Len(data.rules.items) : ValidRuleDefinition(data.rules.items[i])
    IN  [ ok |-> ok,
          name |-> data.name.text,
          rules |-> IF ok
                    THEN [i \in 1..Len(data.rules.items) |-> RuleModelDump(data.rules.items[i])]
                    ELSE <<>> ]

\* _create_rule_from_definition(rule_def): a Rule whose condition and action are the
\* closures condition_func and action_func over the expressions of the definition; a
\* closure is the function from the fact it is called with to what it returns
CreateRuleFromDefinition(rule_def) ==
    [ name |-> rule_def.name, priority |-> rule_def.priority,
      condition |-> "condition_func", action |-> "action_func",
      condition_expr |-> rule_def.condition, action_expr |-> rule_def.action,
      condition_func |-> [fact \in FactValues |-> ConditionFunc(rule_def.condition, fact)],
      action_func |-> [fact \in FactValues |-> ActionFunc(rule_def.action, fact)] ]

NoExecutionSet == RuleExecutionSet(<<>>, <<>>, NoneProps)

\* YAMLRuleLoader.from_dict(data)
FromDict(data) ==
    LET validated_data == ModelValidate(data)
    IN  IF ~validated_data.ok
        THEN [raised |-> "RuleValidationError", ret |-> NoExecutionSet]
        ELSE [raised |-> "none",
              ret |-> RuleExecutionSet(
                          validated_data.name,
                          [i \in 1..Len(validated_data.rules) |->
                              CreateRuleFromDefinition(validated_data.rules[i])],
                          DictProps([description |-> "", source |-> "yaml"]))]

RuleLists == SeqsUpTo(RulePool, MaxRules)

ExecutionSets == { RuleExecutionSet("set", rl, p) : rl \in RuleLists, p \in PropInputs }

----------------------------------------------------------------------------
(* MachineRuleSession *)

\* MachineRuleSession.__init__
NewSession(es, stateless) ==
    [ execution_set |-> es,
      facts         |-> <<>>,
      results       |-> <<>>,
      closed        |-> FALSE,
      stateless     |-> stateless ]

\* the argument of add_facts: a list of facts, or something that is no list
ListArg(items) == [isList |-> TRUE, items |-> items]
NotAList == [isList |-> FALSE, items |-> <<>>]

\* an add_facts without the closed check
SessionAddFactsUnguarded(s, arg) ==
    IF ~arg.isList
    THEN [session |-> s, raised |-> "RuleValidationError"]
    ELSE [session |-> [s EXCEPT !.facts = @ \o arg.items], raised |-> "none"]

\* an add_facts that puts the new facts in front of the pending ones
SessionAddFactsInFront(s, arg) ==
    IF s.closed
    THEN [session |-> s, raised |-> "SessionError"]
    ELSE IF ~arg.isList
    THEN [session |-> s, raised |-> "RuleValidationError"]
    ELSE [session |-> [s EXCEPT !.facts = arg.items \o @], raised |-> "none"]

\* an add_facts without the isinstance check
SessionAddFactsAnyArgument(s, arg) ==
    IF s.closed
    THEN [session |-> s, raised |-> "SessionError"]
    ELSE [session |-> [s EXCEPT !.facts = @ \o arg.items], raised |-> "none"]

\* add_facts
SessionAddFacts(s, arg) ==
    IF s.closed
    THEN [session |-> s, raised |-> "SessionError"]
    ELSE IF ~arg.isList
    THEN [session |-> s, raised |-> "RuleValidationError"]
    ELSE [session |-> [s EXCEPT !.facts = @ \o arg.items], raised |-> "none"]

\* one evaluation of a condition or an action, as execute() performs it
Event(j, i, what, out) == [fact |-> j, rule |-> i, what |-> what, out |-> out]

Logged(acc, j, i, what, out) == [acc EXCEPT !.trace = Append(@, Event(j, i, what, out))]

\* a results list that grows at the front
PrependResult(results, v) == <<v>> \o results

\* self.results.append(result)
AppendResult(results, v) == Append(results, v)

\* a store that keeps None as well
StoreResultAlways(acc, a) == [acc EXCEPT !.results = AppendResult(@, a.val)]

\* if result is not None: self.results.append(result)
StoreResult(acc, a) ==
    IF a.kind # "none"
    THEN [acc EXCEPT !.results = AppendResult(@, a.val)]
    ELSE acc

\* a missing strategy property read as FIRST_MATCH
DefaultStrategyFirst == "FIRST_MATCH"

\* the default of properties.get('strategy', 'ALL_MATCHES')
DefaultStrategy == "ALL_MATCHES"

\* strategy = self.execution_set.get_properties().get('strategy', 'ALL_MATCHES')
StrategyOf(es) == DictGet(GetProperties(es), "strategy", DefaultStrategy)

RECURSIVE ScanRules(_, _, _, _, _, _)

\* an exception handler that gives up on the fact
OnRuleErrorAbort(rules, i, fact, j, strategy, acc) == acc

\* except Exception: log the error and continue with the next rule
OnRuleError(rules, i, fact, j, strategy, acc) ==
    ScanRules(rules, i + 1, fact, j, strategy, acc)

\* a scan that never short-circuits
AfterMatchNoBreak(rules, i, fact, j, strategy, acc, a) ==
    ScanRules(rules, i + 1, fact, j, strategy, acc)

\* a scan that short-circuits only when the action produced a result
AfterMatchBreakOnResult(rules, i, fact, j, strategy, acc, a) ==
    IF strategy = "FIRST_MATCH" /\ a.kind # "none"
    THEN acc
    ELSE ScanRules(rules, i + 1, fact, j, strategy, acc)

\* a scan that calls the action of a matching rule a second time
AfterMatchRepeatAction(rules, i, fact, j, strategy, acc, a) ==
    IF strategy = "FIRST_MATCH"
    THEN Logged(acc, j, i, "action", a.kind)
    ELSE ScanRules(rules, i + 1, fact, j, strategy, Logged(acc, j, i, "action", a.kind))

\* if strategy == 'FIRST_MATCH': break -- reached after the action returned
AfterMatch(rules, i, fact, j, strategy, acc, a) ==
    IF strategy = "FIRST_MATCH"
    THEN acc
    ELSE ScanRules(rules, i + 1, fact, j, strategy, acc)

\* for rule in self.execution_set.get_rules(): the body of the inner loop from rule i on
ScanRules(rules, i, fact, j, strategy, acc) ==
    IF i > Len(rules)
    THEN acc
    ELSE LET c    == CondEval(rules[i], fact)
             acc1 == Logged(acc, j, i, "condition", c)
         IN  IF c = "raise"
             THEN OnRuleError(rules, i, fact, j, strategy, acc1)
             ELSE IF c = "false"
             THEN ScanRules(rules, i + 1, fact, j, strategy, acc1)
             ELSE LET a    == ActEval(rules[i], fact)
                      acc2 == Logged(acc1, j, i, "action", a.kind)
                  IN  IF a.kind = "raise"
                      THEN OnRuleError(rules, i, fact, j, strategy, acc2)
                      ELSE AfterMatch(rules, i, fact, j, strategy, StoreResult(acc2, a), a)

\* for fact in self.facts: the outer loop from fact j on
RECURSIVE ScanFacts(_, _, _, _, _)
ScanFacts(rules, facts, j, strategy, acc) ==
    IF j > Len(facts)
    THEN acc
    ELSE ScanFacts(rules, facts, j + 1, strategy,
                   ScanRules(rules, 1, facts[j], j, strategy, acc))

\* results that pile up across calls
KeptResults(s) == s.results

\* self.results = []
FreshResults(s) == <<>>

\* facts cleared whatever the mode
ClearAlways(s) == [s EXCEPT !.facts = <<>>]

\* if self.stateless: self.facts.clear()
ClearIfStateless(s) == IF s.stateless THEN [s EXCEPT !.facts = <<>>] ELSE s

\* execute
SessionExecute(s) ==
    IF s.closed
    THEN [session |-> s, raised |-> "SessionError", ret |-> <<>>, trace |-> <<>>]
    ELSE LET strategy == StrategyOf(s.execution_set)
             run == ScanFacts(GetRules(s.execution_set), s.facts, 1, strategy,
                              [results |-> FreshResults(s), trace |-> <<>>])
             s2  == ClearIfStateless([s EXCEPT !.results = run.results])
         IN  [session |-> s2, raised |-> "none", ret |-> s2.results, trace |-> run.trace]

\* a close that refuses a closed session
SessionCloseGuarded(s) ==
    IF s.closed
    THEN [session |-> s, raised |-> "SessionError"]
    ELSE [session |-> [s EXCEPT !.facts = <<>>, !.results = <<>>, !.closed = TRUE],
          raised |-> "none"]

\* close
SessionClose(s) ==
    [session |-> [s EXCEPT !.facts = <<>>, !.results = <<>>, !.closed = TRUE],
     raised |-> "none"]

\* a reset that forgets the pending facts only
SessionResetFactsOnly(s) ==
    IF s.closed
    THEN [session |-> s, raised |-> "SessionError"]
    ELSE [session |-> [s EXCEPT !.facts = <<>>], raised |-> "none"]

\* a reset that makes the session usable again
SessionResetReopens(s) ==
    [session |-> [s EXCEPT !.facts = <<>>, !.results = <<>>, !.closed = FALSE],
     raised |-> "none"]

\* reset
SessionReset(s) ==
    IF s.closed
    THEN [session |-> s, raised |-> "SessionError"]
    ELSE [session |-> [s EXCEPT !.facts = <<>>, !.results = <<>>], raised |-> "none"]

----------------------------------------------------------------------------
(* MachineRuleAdministrator, MachineRuleRuntime *)

NoRegistrations == [n \in {} |-> 0]

\* a registration that keeps the rule set a name is already bound to
AdminRegisterKeepFirst(regs, name, es) ==
    IF name = ""
    THEN [registrations |-> regs, raised |-> "RuleValidationError"]
    ELSE [registrations |-> [n \in DOMAIN regs \cup {name} |->
                                IF n \in DOMAIN regs THEN regs[n] ELSE es],
          raised |-> "none"]

\* register_rule_execution_set with a non-empty string name and a RuleExecutionSet
AdminRegister(regs, name, es) ==
    IF name = ""
    THEN [registrations |-> regs, raised |-> "RuleValidationError"]
    ELSE [registrations |-> [n \in DOMAIN regs \cup {name} |->
                                IF n = name THEN es ELSE regs[n]],
          raised |-> "none"]

\* the name argument of register_rule_execution_set: a str, or an object of another
\* type (None, a number)
StrArg(str) == [isStr |-> TRUE, str |-> str]
NotAString == [isStr |-> FALSE, str |-> ""]

\* the execution_set argument: a RuleExecutionSet, or an object of another type
SetArg(es) == [isSet |-> TRUE, set |-> es]
NotASet == [isSet |-> FALSE, set |-> RuleExecutionSet("", <<>>, NoneProps)]

\* a registration that does not look at the type of execution_set
RegisterRuleExecutionSetAnyObject(regs, nameArg, esArg) ==
    IF ~nameArg.isStr \/ nameArg.str = ""
    THEN [registrations |-> regs, raised |-> "RuleValidationError"]
    ELSE AdminRegister(regs, nameArg.str, esArg.set)

\* register_rule_execution_set, whatever the types of its arguments
RegisterRuleExecutionSet(regs, nameArg, esArg) ==
    IF ~nameArg.isStr \/ nameArg.str = ""
    THEN [registrations |-> regs, raised |-> "RuleValidationError"]
    ELSE IF ~esArg.isSet
    THEN [registrations |-> regs, raised |-> "RuleValidationError"]
    ELSE AdminRegister(regs, nameArg.str, esArg.set)

\* a deregistration by `del self.registrations[name]`
DeregisterRuleExecutionSetStrict(regs, name) ==
    IF name \in DOMAIN regs
    THEN [registrations |-> [n \in DOMAIN regs \ {name} |-> regs[n]], raised |-> "none"]
    ELSE [registrations |-> regs, raised |-> "KeyError"]

\* deregister_rule_execution_set: self.registrations.pop(name, None)
DeregisterRuleExecutionSet(regs, name) ==
    [registrations |-> [n \in DOMAIN regs \ {name} |-> regs[n]], raised |-> "none"]

\* the stateless argument of create_rule_session: omitted, True or False
StatelessArgs == {"omitted", "True", "False"}

\* stateless: bool = False
StatelessValue(arg) == arg = "True"

\* a create_rule_session that answers an unknown uri with a session over no rules
RuntimeCreateRuleSessionLenient(regs, uri, statelessArg) ==
    IF uri \notin DOMAIN regs
    THEN [created |-> TRUE, raised |-> "none",
          session |-> NewSession(RuleExecutionSet("", <<>>, NoneProps), FALSE)]
    ELSE [created |-> TRUE, raised |-> "none",
          session |-> NewSession(regs[uri], StatelessValue(statelessArg))]

\* create_rule_session
RuntimeCreateRuleSession(regs, uri, statelessArg) ==
    IF uri \notin DOMAIN regs
    THEN [created |-> FALSE, raised |-> "RuleValidationError",
          session |-> NewSession(RuleExecutionSet("", <<>>, NoneProps), FALSE)]
    ELSE [created |-> TRUE, raised |-> "none",
          session |-> NewSession(regs[uri], StatelessValue(statelessArg))]

\* MachineRuleRuntime.get_registrations: the registered URIs (the order of the list,
\* which is the dict's, is left out)
RuntimeGetRegistrations(regs) == DOMAIN regs

\* a runtime that keeps the registrations its provider had when it was constructed
RuntimeViewAtConstruction(engs, p) == NoRegistrations

\* self.administrator.registrations: the runtime of provider p reads the dict of p's own
\* administrator, as it is at the time of the call
RuntimeView(engs, p) == engs[p]

----------------------------------------------------------------------------
(* Mutable objects in the hands of a caller *)

\* A list or dict a caller holds: the argument or return value it is (kind), the
\* registered name or the session it belongs to (of), whether it is the very object
\* the engine keeps (shared) or an object of its own, and its value.
HeldObject(kind, of, shared, value) ==
    [kind |-> kind, of |-> of, shared |-> shared, value |-> value]

NothingHeld == HeldObject("none", "-", FALSE, <<>>)

\* the rules argument of RuleExecutionSet: sorted(rules, ...) builds a new list
RulesArgument(name, rules) == HeldObject("rules", name, FALSE, rules)

\* the properties argument, a dict: `properties or {}` is that dict unless it is empty
PropertiesArgument(name, properties) ==
    HeldObject("properties", name, properties.dict # EmptyDict, properties.dict)

\* get_rules: return self.rules
GetRulesReturn(name, es) == HeldObject("get_rules", name, TRUE, GetRules(es))

\* get_properties: return self.properties.copy()
GetPropertiesReturn(name, es) ==
    HeldObject("get_properties", name, FALSE, GetProperties(es))

\* a get_registrations that hands out the administrator's dict itself
GetRegistrationsReturnLive(regs) == HeldObject("get_registrations", "-", TRUE, regs)

\* get_registrations: return self.registrations.copy()
GetRegistrationsReturn(regs) == HeldObject("get_registrations", "-", FALSE, regs)

\* a held object after the administrator's dict became regs: an object of the
\* caller's own stays as it is
HeldAfter(h, regs) ==
    IF h.kind = "get_registrations" /\ h.shared THEN [h EXCEPT !.value = regs] ELSE h

\* an execute that returns the results list itself
ExecuteReturnItself(sid, s) == HeldObject("execute", sid, TRUE, s.results)

\* execute: return self.results.copy()
ExecuteReturn(sid, s) == HeldObject("execute", sid, FALSE, s.results)

Reverse(l) == [k \in 1..Len(l) |-> l[Len(l) + 1 - k]]

\* what a caller does to a list it holds: clear(), reverse(), del l[0]
ListMutations(l) == {<<>>, Reverse(l)} \cup (IF l = <<>> THEN {} ELSE {Tail(l)})

\* what a caller does to a properties dict it holds: clear(), d['strategy'] = ...
DictMutations(d) == {EmptyDict, [strategy |-> "ALL_MATCHES"], [strategy |-> "FIRST_MATCH"]}

Mutations(h) ==
    IF h.kind \in {"properties", "get_properties"}
    THEN DictMutations(h.value) \ {h.value}
    ELSE ListMutations(h.value) \ {h.value}

\* a RuleExecutionSet after the held object h, a list or dict of that set, became v
MutatedSet(es, h, v) ==
    IF ~h.shared
    THEN es
    ELSE IF h.kind \in {"rules", "get_rules"}
    THEN [es EXCEPT !.rules = v]
    ELSE IF h.kind \in {"properties", "get_properties"}
    THEN [es EXCEPT !.properties = v]
    ELSE es

\* the session sid after the held object h became v
MutatedSession(s, sid, regs, h, v) ==
    IF h.kind = "execute"
    THEN IF h.shared /\ h.of = sid THEN [s EXCEPT !.results = v] ELSE s
    ELSE IF s.execution_set = regs[h.of]
    THEN [s EXCEPT !.execution_set = MutatedSet(@, h, v)]
    ELSE s

----------------------------------------------------------------------------
(* The owner of a session *)

NoSessions == [s \in {} |-> 0]

NullSession == NewSession(RuleExecutionSet("", <<>>, NoneProps), FALSE)

\* the owner is between two calls; alone is the session as its calls alone leave it
Idle(alone) ==
    [ pc |-> "idle", j |-> 0, strategy |-> "", trace |-> <<>>, pre |-> NullSession,
      alone |-> alone ]

NoOwners == [s \in {} |-> 0]

----------------------------------------------------------------------------
(* The state outside a single engine *)

NoEngines == [p \in {} |-> 0]

NoThreads == [t \in {} |-> 0]

\* no provider registered or created, no thread started, the lock free
NoProcess ==
    /\ providers = <<>>
    /\ engines = NoEngines
    /\ threads = NoThreads
    /\ lock = "free"

----------------------------------------------------------------------------
(* RuleServiceProviderManager, MachineRuleServiceProvider *)

\* A Python dict of the provider registry: its entries in insertion order.
Entry(k, v) == [key |-> k, value |-> v]

\* the positions of key k in dict d
Positions(d, k) == { i \in 1..Len(d) : d[i].key = k }

\* d.get(k, default)
ODictGet(d, k, default) ==
    IF Positions(d, k) = {}
    THEN default
    ELSE d[CHOOSE i \in Positions(d, k) : \A j \in Positions(d, k) : i <= j].value

\* d[k] = v: a key that is present keeps its place
ODictSet(d, k, v) ==
    IF Positions(d, k) = {}
    THEN Append(d, Entry(k, v))
    ELSE [i \in 1..Len(d) |-> IF d[i].key = k THEN Entry(k, v) ELSE d[i]]

\* d.pop(k, None)
ODictPop(d, k) == SelectSeq(d, LAMBDA e : e.key # k)

\* list(d.keys())
ODictKeys(d) == [i \in 1..Len(d) |-> d[i].key]

\* None, where a provider is expected
NoProvider == "None"

\* a register that adds an entry whatever the dict holds
ManagerRegisterAppend(provs, uri, provider) == Append(provs, Entry(uri, provider))

\* RuleServiceProviderManager.register: cls._providers[uri] = provider
ManagerRegister(provs, uri, provider) == ODictSet(provs, uri, provider)

\* RuleServiceProviderManager.get: cls._providers.get(uri)
ManagerGet(provs, uri) == ODictGet(provs, uri, NoProvider)

\* RuleServiceProviderManager.deregister: cls._providers.pop(uri, None)
ManagerDeregister(provs, uri) == ODictPop(provs, uri)

\* RuleServiceProviderManager.get_registered_uris: list(cls._providers.keys())
ManagerGetRegisteredUris(provs) == ODictKeys(provs)

\* MachineRuleServiceProvider.__init__: an administrator of its own, nothing registered
NewEngine == NoRegistrations

\* machine_rules.initialize(): one provider, registered under three URIs
Initialize(provs, provider) ==
    ManagerRegister(ManagerRegister(ManagerRegister(provs, "api", provider),
                                    "inmemory", provider),
                    "machine", provider)

\* the exception classes an `except ValueError` clause catches: RuleValidationError
\* and SessionError derive from RuleEngineError(Exception), HTTPException from Exception
IsValueError(kind) == kind \in {"ValueError"}

\* the except clauses of execute_rule_set: ValueError -> 400, Exception -> 500
HttpError(kind) ==
    IF IsValueError(kind)
    THEN [status |-> 400, results |-> <<>>]
    ELSE [status |-> 500, results |-> <<>>]

\* the body of a POST /execute request that passed FactModel: a list and a string
Request(facts, uri) == [facts |-> facts, ruleset_uri |-> uri]

\* execute_rule_set
ExecuteRuleSet(provs, engs, request) ==
    LET provider == ManagerGet(provs, "api")
    IN  IF provider = NoProvider
        THEN HttpError("HTTPException")
        ELSE LET c == RuntimeCreateRuleSession(RuntimeView(engs, provider),
                                               request.ruleset_uri, "True")
                 a == SessionAddFacts(c.session, ListArg(request.facts))
                 e == SessionExecute(a.session)
             IN  IF c.raised # "none"
                 THEN HttpError(c.raised)
                 ELSE IF a.raised # "none"
                 THEN HttpError(a.raised)
                 ELSE IF e.raised # "none"
                 THEN HttpError(e.raised)
                 ELSE [status |-> 200, results |-> e.ret]

----------------------------------------------------------------------------
(* The record of the most recent call *)

Call(op, sid, arg, raised, ret, trace, pre) ==
    [ op |-> op, sid |-> sid, arg |-> arg, raised |-> raised,
      ret |-> ret, trace |-> trace, pre |-> pre ]

----------------------------------------------------------------------------
(* Actions: one per API call *)

\* runtime.create_rule_session(uri, stateless=...) by a caller who keeps the session as sid
CreateSession(sid, uri, statelessArg) ==
    /\ sid \notin DOMAIN sessions
    /\ LET r == RuntimeCreateRuleSession(registrations, uri, statelessArg)
       IN  /\ sessions' = IF r.created THEN sessions @@ (sid :> r.session) ELSE sessions
           /\ owners' = IF r.created THEN owners @@ (sid :> Idle(r.session)) ELSE owners
           /\ last' = Call("create_rule_session", sid,
                           [uri |-> uri, stateless |-> statelessArg],
                           r.raised, <<>>, <<>>, NullSession)
    /\ UNCHANGED <<registrations, held, processVars>>

\* an add_facts on a facts list that all sessions share
AddFactsShared(sid, arg) ==
    /\ sid \in DOMAIN sessions
    /\ owners[sid].pc = "idle"
    /\ LET r == SessionAddFacts(sessions[sid], arg)
       IN  /\ Len(r.session.facts) <= MaxFacts
           /\ sessions' = [t \in DOMAIN sessions |->
                             IF t = sid
                             THEN r.session
                             ELSE [sessions[t] EXCEPT !.facts = r.session.facts]]
           /\ owners' = [owners EXCEPT
                            ![sid].alone = SessionAddFacts(owners[sid].alone, arg).session]
           /\ last' = Call("add_facts", sid, arg, r.raised, <<>>, <<>>, sessions[sid])
    /\ UNCHANGED <<registrations, held, processVars>>

\* session.add_facts(arg)
AddFacts(sid, arg) ==
    /\ sid \in DOMAIN sessions
    /\ owners[sid].pc = "idle"
    /\ LET r == SessionAddFacts(sessions[sid], arg)
       IN  /\ Len(r.session.facts) <= MaxFacts
           /\ sessions' = [sessions EXCEPT ![sid] = r.session]
           /\ owners' = [owners EXCEPT
                            ![sid].alone = SessionAddFacts(owners[sid].alone, arg).session]
           /\ last' = Call("add_facts", sid, arg, r.raised, <<>>, <<>>, sessions[sid])
    /\ UNCHANGED <<registrations, held, processVars>>

\* session.execute(), run from its first line to its return with no other call in
\* between; the caller keeps the returned list or drops it
Execute(sid, keep) ==
    /\ sid \in DOMAIN sessions
    /\ owners[sid].pc = "idle"
    /\ LET r == SessionExecute(sessions[sid])
       IN  /\ sessions' = [sessions EXCEPT ![sid] = r.session]
           /\ owners' = [owners EXCEPT
                            ![sid].alone = SessionExecute(owners[sid].alone).session]
           /\ held' = IF keep /\ r.raised = "none"
                      THEN ExecuteReturn(sid, r.session)
                      ELSE held
           /\ last' = Call("execute", sid, <<>>, r.raised, r.ret, r.trace, sessions[sid])
    /\ UNCHANGED <<registrations, processVars>>

\* session.execute() up to the loops: the closed check, the strategy, self.results = []
ExecuteBegin(sid) ==
    /\ sid \in DOMAIN sessions
    /\ owners[sid].pc = "idle"
    /\ IF sessions[sid].closed
       THEN /\ last' = Call("execute", sid, <<>>, "SessionError", <<>>, <<>>, sessions[sid])
            /\ owners' = [owners EXCEPT
                             ![sid].alone = SessionExecute(owners[sid].alone).session]
            /\ UNCHANGED sessions
       ELSE /\ sessions' = [sessions EXCEPT ![sid].results = FreshResults(sessions[sid])]
            /\ owners' = [owners EXCEPT
                             ![sid].pc = "loop",
                             ![sid].j = 1,
                             ![sid].strategy = StrategyOf(sessions[sid].execution_set),
                             ![sid].trace = <<>>,
                             ![sid].pre = sessions[sid]]
            /\ UNCHANGED last
    /\ UNCHANGED <<registrations, held, processVars>>

\* one round of `for fact in self.facts`: every rule is tried on the next pending fact
ExecuteFact(sid) ==
    /\ sid \in DOMAIN sessions
    /\ owners[sid].pc = "loop"
    /\ owners[sid].j <= Len(sessions[sid].facts)
    /\ LET s   == sessions[sid]
           o   == owners[sid]
           acc == ScanRules(GetRules(s.execution_set), 1, s.facts[o.j], o.j, o.strategy,
                            [results |-> s.results, trace |-> o.trace])
       IN  /\ sessions' = [sessions EXCEPT ![sid].results = acc.results]
           /\ owners' = [owners EXCEPT ![sid].j = o.j + 1, ![sid].trace = acc.trace]
    /\ UNCHANGED <<registrations, last, held, processVars>>

\* session.execute() after the loops: the stateless clear and the return
ExecuteEnd(sid) ==
    /\ sid \in DOMAIN sessions
    /\ owners[sid].pc = "loop"
    /\ owners[sid].j > Len(sessions[sid].facts)
    /\ LET s2 == ClearIfStateless(sessions[sid])
           o  == owners[sid]
       IN  /\ sessions' = [sessions EXCEPT ![sid] = s2]
           /\ owners' = [owners EXCEPT ![sid] = Idle(SessionExecute(o.alone).session)]
           /\ last' = Call("execute", sid, <<>>, "none", s2.results, o.trace, o.pre)
    /\ UNCHANGED <<registrations, held, processVars>>

\* session.reset()
Reset(sid) ==
    /\ sid \in DOMAIN sessions
    /\ owners[sid].pc = "idle"
    /\ LET r == SessionReset(sessions[sid])
       IN  /\ sessions' = [sessions EXCEPT ![sid] = r.session]
           /\ owners' = [owners EXCEPT
                            ![sid].alone = SessionReset(owners[sid].alone).session]
           /\ last' = Call("reset", sid, <<>>, r.raised, <<>>, <<>>, sessions[sid])
    /\ UNCHANGED <<registrations, held, processVars>>

\* session.close()
Close(sid) ==
    /\ sid \in DOMAIN sessions
    /\ owners[sid].pc = "idle"
    /\ LET r == SessionClose(sessions[sid])
       IN  /\ sessions' = [sessions EXCEPT ![sid] = r.session]
           /\ owners' = [owners EXCEPT
                            ![sid].alone = SessionClose(owners[sid].alone).session]
           /\ last' = Call("close", sid, <<>>, r.raised, <<>>, <<>>, sessions[sid])
    /\ UNCHANGED <<registrations, held, processVars>>

\* the registered set's get_rules(), the caller keeping the list
GetRulesCall(name) ==
    /\ name \in DOMAIN registrations
    /\ held' = GetRulesReturn(name, registrations[name])
    /\ last' = Call("get_rules", "-", [name |-> name], "none",
                    GetRules(registrations[name]), <<>>, NullSession)
    /\ UNCHANGED <<registrations, sessions, owners, processVars>>

\* the registered set's get_properties(), the caller keeping the dict
GetPropertiesCall(name) ==
    /\ name \in DOMAIN registrations
    /\ held' = GetPropertiesReturn(name, registrations[name])
    /\ last' = Call("get_properties", "-", [name |-> name], "none",
                    GetProperties(registrations[name]), <<>>, NullSession)
    /\ UNCHANGED <<registrations, sessions, owners, processVars>>

\* the caller changes the list or dict it holds to v, in place; sid is a session the
\* object belongs to: the one that returned it, or one bound to its rule set
Mutate(sid, v) ==
    /\ held.kind # "none"
    /\ sid \in DOMAIN sessions
    /\ owners[sid].pc = "idle"
    /\ IF held.kind = "execute"
       THEN held.of = sid
       ELSE /\ held.of \in DOMAIN registrations
            /\ sessions[sid].execution_set = registrations[held.of]
    /\ v \in Mutations(held)
    /\ held' = [held EXCEPT !.value = v]
    /\ sessions' = [t \in DOMAIN sessions |->
                      MutatedSession(sessions[t], t, registrations, held, v)]
    /\ registrations' = IF held.kind = "execute"
                        THEN registrations
                        ELSE [registrations EXCEPT ![held.of] = MutatedSet(@, held, v)]
    /\ last' = Call("mutate", sid, [kind |-> held.kind, value |-> v], "none",
                    <<>>, <<>>, sessions[sid])
    /\ UNCHANGED <<owners, processVars>>

\* RuleExecutionSet("set", rules, properties), for the arguments the caller holds ready
Construct(rules, properties) ==
    /\ last.op = "none"
    /\ last' = Call("RuleExecutionSet", "-",
                    [rules |-> rules, properties |-> properties],
                    "none", RuleExecutionSet("set", rules, properties), <<>>, NullSession)
    /\ UNCHANGED <<registrations, sessions, held, owners, processVars>>

\* the engine before an administrator call: the registrations and the sessions
Engine == [registrations |-> registrations, sessions |-> sessions, held |-> held]

\* a registration that updates the registered RuleExecutionSet object in place, so that
\* the sessions holding that object see the new rules
RegisterInPlace(nameArg, esArg) ==
    LET r == RegisterRuleExecutionSet(registrations, nameArg, esArg)
    IN  /\ registrations' = r.registrations
        /\ sessions' = [sid \in DOMAIN sessions |->
                          IF /\ r.raised = "none"
                             /\ nameArg.str \in DOMAIN registrations
                             /\ sessions[sid].execution_set = registrations[nameArg.str]
                          THEN [sessions[sid] EXCEPT !.execution_set = esArg.set]
                          ELSE sessions[sid]]
        /\ last' = Call("register_rule_execution_set", "-",
                        [name |-> nameArg, execution_set |-> esArg],
                        r.raised, <<>>, <<>>, Engine)
        /\ held' = HeldAfter(held, r.registrations)
        /\ UNCHANGED <<owners, processVars>>

\* administrator.register_rule_execution_set(nameArg, esArg)
Register(nameArg, esArg) ==
    LET r == RegisterRuleExecutionSet(registrations, nameArg, esArg)
    IN  /\ registrations' = r.registrations
        /\ last' = Call("register_rule_execution_set", "-",
                        [name |-> nameArg, execution_set |-> esArg],
                        r.raised, <<>>, <<>>, Engine)
        /\ held' = HeldAfter(held, r.registrations)
        /\ UNCHANGED <<sessions, owners, processVars>>

\* administrator.deregister_rule_execution_set(name)
Deregister(name) ==
    LET r == DeregisterRuleExecutionSet(registrations, name)
    IN  /\ registrations' = r.registrations
        /\ last' = Call("deregister_rule_execution_set", "-", [name |-> name],
                        r.raised, <<>>, <<>>, Engine)
        /\ held' = HeldAfter(held, r.registrations)
        /\ UNCHANGED <<sessions, owners, processVars>>

\* administrator.get_registrations(), the caller keeping the mapping
GetRegistrationsCall ==
    /\ held' = GetRegistrationsReturn(registrations)
    /\ last' = Call("get_registrations", "-", <<>>, "none", registrations, <<>>, Engine)
    /\ UNCHANGED <<registrations, sessions, owners, processVars>>

\* the mapping without the key k: del m[k]
Without(m, k) == [n \in DOMAIN m \ {k} |-> m[n]]

\* what a caller does to a mapping of registrations it holds: clear(), del m[k],
\* m['rs2'] = a rule set
MappingMutations(m, sets) ==
    ( {NoRegistrations}
      \cup { Without(m, k) : k \in DOMAIN m }
      \cup { [n \in DOMAIN m \cup {"rs2"} |-> IF n = "rs2" THEN es ELSE m[n]] : es \in sets } )
    \ {m}

\* the caller changes the mapping get_registrations() returned to v, in place
MutateSnapshot(v) ==
    /\ held.kind = "get_registrations"
    /\ held' = [held EXCEPT !.value = v]
    /\ registrations' = IF held.shared THEN v ELSE registrations
    /\ last' = Call("mutate_snapshot", "-", [value |-> v], "none", <<>>, <<>>, Engine)
    /\ UNCHANGED <<sessions, owners, processVars>>

\* the provider registry and the providers before a call
Process == [providers |-> providers, engines |-> engines]

\* MachineRuleServiceProvider(), the caller keeping the new provider as p
CreateProvider(p) ==
    /\ p \notin DOMAIN engines
    /\ engines' = engines @@ (p :> NewEngine)
    /\ last' = Call("MachineRuleServiceProvider", "-", [provider |-> p], "none",
                    p, <<>>, Process)
    /\ UNCHANGED <<sessionVars, providers, threads, lock>>

\* RuleServiceProviderManager.register(uri, p)
ProviderRegister(uri, p) ==
    /\ p \in DOMAIN engines
    /\ providers' = ManagerRegister(providers, uri, p)
    /\ last' = Call("register", "-", [uri |-> uri, provider |-> p], "none",
                    <<>>, <<>>, Process)
    /\ UNCHANGED <<sessionVars, engines, threads, lock>>

\* RuleServiceProviderManager.get(uri)
ProviderGet(uri) ==
    /\ last' = Call("get", "-", [uri |-> uri], "none",
                    ManagerGet(providers, uri), <<>>, Process)
    /\ UNCHANGED <<sessionVars, processVars>>

\* RuleServiceProviderManager.deregister(uri)
ProviderDeregister(uri) ==
    /\ providers' = ManagerDeregister(providers, uri)
    /\ last' = Call("deregister", "-", [uri |-> uri], "none", <<>>, <<>>, Process)
    /\ UNCHANGED <<sessionVars, engines, threads, lock>>

\* RuleServiceProviderManager.get_registered_uris()
ProviderUris ==
    /\ last' = Call("get_registered_uris", "-", <<>>, "none",
                    ManagerGetRegisteredUris(providers), <<>>, Process)
    /\ UNCHANGED <<sessionVars, processVars>>

\* a registration into a registrations dict that all administrators share
EngineRegisterShared(p, nameArg, esArg) ==
    /\ p \in DOMAIN engines
    /\ LET r == RegisterRuleExecutionSet(engines[p], nameArg, esArg)
       IN  /\ engines' = [q \in DOMAIN engines |-> r.registrations]
           /\ last' = Call("register_rule_execution_set", "-",
                           [provider |-> p, name |-> nameArg, execution_set |-> esArg],
                           r.raised, <<>>, <<>>, Process)
    /\ UNCHANGED <<sessionVars, providers, threads, lock>>

\* p.get_rule_administrator().register_rule_execution_set(nameArg, esArg)
EngineRegister(p, nameArg, esArg) ==
    /\ p \in DOMAIN engines
    /\ LET r == RegisterRuleExecutionSet(engines[p], nameArg, esArg)
       IN  /\ engines' = [engines EXCEPT ![p] = r.registrations]
           /\ last' = Call("register_rule_execution_set", "-",
                           [provider |-> p, name |-> nameArg, execution_set |-> esArg],
                           r.raised, <<>>, <<>>, Process)
    /\ UNCHANGED <<sessionVars, providers, threads, lock>>

\* p.get_rule_administrator().deregister_rule_execution_set(name)
EngineDeregister(p, name) ==
    /\ p \in DOMAIN engines
    /\ LET r == DeregisterRuleExecutionSet(engines[p], name)
       IN  /\ engines' = [engines EXCEPT ![p] = r.registrations]
           /\ last' = Call("deregister_rule_execution_set", "-",
                           [provider |-> p, name |-> name],
                           r.raised, <<>>, <<>>, Process)
    /\ UNCHANGED <<sessionVars, providers, threads, lock>>

\* p.get_rule_runtime().create_rule_session(uri), the caller dropping the session
EngineCreateSession(p, uri) ==
    /\ p \in DOMAIN engines
    /\ LET r == RuntimeCreateRuleSession(RuntimeView(engines, p), uri, "omitted")
       IN  last' = Call("create_rule_session", "-", [provider |-> p, uri |-> uri],
                       r.raised, r.session, <<>>, Process)
    /\ UNCHANGED <<sessionVars, processVars>>

\* p.get_rule_runtime().get_registrations()
EngineRuntimeGetRegistrations(p) ==
    /\ p \in DOMAIN engines
    /\ last' = Call("runtime.get_registrations", "-", [provider |-> p], "none",
                    RuntimeGetRegistrations(RuntimeView(engines, p)), <<>>, Process)
    /\ UNCHANGED <<sessionVars, processVars>>

\* p.get_rule_administrator().get_registrations(), the caller dropping the copy
EngineGetRegistrations(p) ==
    /\ p \in DOMAIN engines
    /\ last' = Call("administrator.get_registrations", "-", [provider |-> p], "none",
                    GetRegistrationsReturn(engines[p]).value, <<>>, Process)
    /\ UNCHANGED <<sessionVars, processVars>>

\* POST /execute with a body that passed validation
HttpExecute(request) ==
    /\ last' = Call("POST /execute", "-", request, "none",
                    ExecuteRuleSet(providers, engines, request), <<>>, Process)
    /\ UNCHANGED <<sessionVars, processVars>>

\* One call of a thread's program: the operation and its arguments.
ThreadCall(op, uri, arg) == [op |-> op, uri |-> uri, arg |-> arg]

\* A thread that is to make the calls of program, one after the other. at counts the
\* calls it has completed, pc is "idle" between calls, atCall is the dict's contents
\* when the call in progress began, point the dict's contents when its last dict
\* operation ran, ret and raised are the outcome of the last completed call, failed
\* remembers an exception of any call, and raced that a write of this thread met a
\* dict another thread had changed since the call began.
ThreadStart(program) ==
    [program |-> program, at |-> 0, pc |-> "idle", atCall |-> <<>>, point |-> <<>>,
     ret |-> <<>>, raised |-> "none", failed |-> FALSE, raced |-> FALSE]

\* the call a thread is making
CurrentCall(th) == th.program[th.at + 1]

\* a thread after the call in progress has returned ret or raised
ThreadReturn(th, ret, raised, raced) ==
    [th EXCEPT !.at = th.at + 1, !.pc = "idle", !.atCall = <<>>, !.ret = ret,
               !.raised = raised, !.failed = th.failed \/ raised # "none",
               !.raced = th.raced \/ raced]

\* a store that writes back a changed copy of the dict as the call found it
ManagerStoreCopy(current, atCall, uri, provider) == ManagerRegister(atCall, uri, provider)

\* cls._providers[uri] = provider in a running thread: one dict operation, on the dict
\* as it is when the operation runs, whatever it held when the call began
ManagerStore(current, atCall, uri, provider) == ManagerRegister(current, uri, provider)

\* the dict operation of a call on the provider registry: the dict and the value returned
ManagerApply(current, atCall, c) ==
    IF c.op = "register"
    THEN [providers |-> ManagerStore(current, atCall, c.uri, c.arg), ret |-> <<>>]
    ELSE IF c.op = "get"
    THEN [providers |-> current, ret |-> ManagerGet(current, c.uri)]
    ELSE IF c.op = "deregister"
    THEN [providers |-> ManagerDeregister(current, c.uri), ret |-> <<>>]
    ELSE [providers |-> current, ret |-> ManagerGetRegisteredUris(current)]

\* thread t enters the next RuleServiceProviderManager call of its program
ManagerCall(t) ==
    /\ threads[t].pc = "idle"
    /\ threads[t].at < Len(threads[t].program)
    /\ threads' = [threads EXCEPT ![t].pc = "called", ![t].atCall = providers]
    /\ UNCHANGED <<sessionVars, last, providers, engines, lock>>

\* thread t performs the dict operation of its call and returns
ManagerStep(t) ==
    /\ threads[t].pc = "called"
    /\ LET c == CurrentCall(threads[t])
           r == ManagerApply(providers, threads[t].atCall, c)
       IN  /\ providers' = r.providers
           /\ threads' = [threads EXCEPT ![t] =
                  ThreadReturn(@, r.ret, "none",
                               c.op \in {"register", "deregister"}
                                 /\ threads[t].atCall # providers)]
    /\ UNCHANGED <<sessionVars, last, engines, lock>>

\* where a call takes no rule set
NoSet == RuleExecutionSet("", <<>>, NoneProps)

\* a store that writes back a changed copy of the dict as the call found it
AdminStoreCopy(current, atCall, name, es) == AdminRegister(atCall, name, es).registrations

\* self.registrations[name] = execution_set in a running thread: one dict operation,
\* on the dict as it is when the operation runs
AdminStore(current, atCall, name, es) == AdminRegister(current, name, es).registrations

\* the calls whose dict operation runs inside `with self._lock`
TakesLock(c) == c.op \in {"register_rule_execution_set", "deregister_rule_execution_set",
                          "get_registrations"}

\* the dict operation of a call on one administrator or its runtime: the dict, the
\* value returned and the exception raised
AdminApply(current, atCall, c) ==
    IF c.op = "register_rule_execution_set"
    THEN [registrations |-> AdminStore(current, atCall, c.uri, c.arg),
          ret |-> <<>>, raised |-> "none"]
    ELSE IF c.op = "deregister_rule_execution_set"
    THEN [registrations |-> DeregisterRuleExecutionSet(current, c.uri).registrations,
          ret |-> <<>>, raised |-> "none"]
    ELSE IF c.op = "get_registrations"
    THEN [registrations |-> current, ret |-> current, raised |-> "none"]
    ELSE IF c.op = "create_rule_session"
    THEN [registrations |-> current,
          ret |-> RuntimeCreateRuleSession(current, c.uri, "omitted").session,
          raised |-> RuntimeCreateRuleSession(current, c.uri, "omitted").raised]
    ELSE [registrations |-> current, ret |-> RuntimeGetRegistrations(current),
          raised |-> "none"]

\* thread t enters the next administrator or runtime call of its program; a
\* registration checks its arguments before it asks for the lock
AdminCall(t) ==
    /\ threads[t].pc = "idle"
    /\ threads[t].at < Len(threads[t].program)
    /\ LET c == CurrentCall(threads[t])
           v == RegisterRuleExecutionSet(registrations, StrArg(c.uri), SetArg(c.arg))
       IN  threads' = [threads EXCEPT ![t] =
               IF c.op = "register_rule_execution_set" /\ v.raised # "none"
               THEN ThreadReturn(@, <<>>, v.raised, FALSE)
               ELSE [@ EXCEPT !.pc = "called", !.atCall = registrations]]
    /\ UNCHANGED <<sessionVars, last, providers, engines, lock>>

\* thread t enters `with self._lock`
AdminAcquire(t) ==
    /\ threads[t].pc = "called"
    /\ TakesLock(CurrentCall(threads[t]))
    /\ lock = "free"
    /\ lock' = t
    /\ threads' = [threads EXCEPT ![t].pc = "locked"]
    /\ UNCHANGED <<sessionVars, last, providers, engines>>

\* thread t performs the dict operation of its call: inside the lock when the call takes
\* it, and otherwise at once, returning
AdminStep(t) ==
    /\ \/ threads[t].pc = "locked"
       \/ threads[t].pc = "called" /\ ~TakesLock(CurrentCall(threads[t]))
    /\ LET c == CurrentCall(threads[t])
           r == AdminApply(registrations, threads[t].atCall, c)
           raced == c.op \in {"register_rule_execution_set",
                             "deregister_rule_execution_set"}
                       /\ threads[t].atCall # registrations
       IN  /\ registrations' = r.registrations
           /\ threads' = [threads EXCEPT ![t] =
                  IF TakesLock(c)
                  THEN [@ EXCEPT !.pc = "applied", !.point = registrations,
                                 !.ret = r.ret, !.raised = r.raised,
                                 !.raced = @ \/ raced]
                  ELSE [ThreadReturn(@, r.ret, r.raised, FALSE)
                           EXCEPT !.point = registrations]]
    /\ UNCHANGED <<sessions, held, owners, last, providers, engines, lock>>

\* thread t leaves `with self._lock` and returns
AdminRelease(t) ==
    /\ threads[t].pc = "applied"
    /\ lock' = "free"
    /\ threads' = [threads EXCEPT ![t] =
           [ThreadReturn(@, @.ret, @.raised, FALSE) EXCEPT !.point = threads[t].point]]
    /\ UNCHANGED <<sessionVars, last, providers, engines>>

\* safe_eval(expression, names) on the arguments the state holds
SafeEvalCall(outcome) ==
    /\ last.op = "none"
    /\ LET r == SafeEval(last.arg.available, last.arg.expression, last.arg.names, outcome)
       IN  last' = Call("safe_eval", "-", last.arg, r.raised, r, <<>>, NullSession)
    /\ UNCHANGED <<sessionVars, processVars>>

AddFactsArgs == {NotAList} \cup { ListArg(items) : items \in SeqsUpTo(FactValues, MaxFacts) }

\* the rule sets of the session life-cycle specification: rules that return a value
LifecycleSets ==
    { RuleExecutionSet("set", rl, p) :
        rl \in SeqsUpTo({ r \in RulePool : r.name \in {"a", "b"} }, MaxRules),
        p \in PropInputs }

\* the rule sets the administrator specification registers: they differ in rules and
\* in strategy
AdminSets ==
    { RuleExecutionSet("set", <<RuleNamed("a")>>, NoneProps),
      RuleExecutionSet("set", <<RuleNamed("f"), RuleNamed("b"), RuleNamed("a")>>,
                       DictProps([strategy |-> "FIRST_MATCH"])) }

AdminNames == {"rs", "rs2"}

AdminNameArgs == { StrArg(n) : n \in AdminNames \cup {""} } \cup {NotAString}

AdminSetArgs == { SetArg(es) : es \in AdminSets } \cup {NotASet}

----------------------------------------------------------------------------
(* Specifications *)

\* Spec: the life cycle of a session (create, add_facts, execute, reset, close) over an
\* engine in which one rule set is registered under "rs".
Init ==
    \E es \in LifecycleSets :
        /\ registrations = AdminRegister(NoRegistrations, "rs", es).registrations
        /\ sessions = NoSessions
        /\ last = Call("register_rule_execution_set", "-", es, "none",
                       <<>>, <<>>, NullSession)
        /\ held = NothingHeld
        /\ owners = NoOwners
        /\ NoProcess

Next ==
    \/ \E sid \in SessionIds, uri \in {"rs", "missing"}, st \in StatelessArgs :
            CreateSession(sid, uri, st)
    \/ \E sid \in SessionIds, arg \in AddFactsArgs : AddFacts(sid, arg)
    \/ \E sid \in SessionIds : Execute(sid, FALSE)
    \/ \E sid \in SessionIds : Reset(sid)
    \/ \E sid \in SessionIds : Close(sid)

Spec == Init /\ [][Next]_vars

\* SpecExec: execute() applied to every bounded rule set and pending-fact buffer. The
\* initial states are sessions just created for the registered rule set, stateless or
\* not, whose facts were handed over by one add_facts call.
InitExec ==
    \E es \in ExecutionSets, st \in BOOLEAN, facts \in SeqsUpTo(FactValues, MaxFacts) :
        /\ registrations = AdminRegister(NoRegistrations, "rs", es).registrations
        /\ sessions = ("s1" :> SessionAddFacts(NewSession(es, st), ListArg(facts)).session)
        /\ last = Call("add_facts", "s1", ListArg(facts), "none",
                       <<>>, <<>>, NewSession(es, st))
        /\ held = NothingHeld
        /\ owners = ("s1" :> Idle(sessions["s1"]))
        /\ NoProcess

NextExec == \E sid \in SessionIds : Execute(sid, FALSE)

SpecExec == InitExec /\ [][NextExec]_vars

\* SpecSet: the RuleExecutionSet constructor applied to every bounded rule list. The
\* initial states hold the arguments of the call to come.
InitSet ==
    \E rules \in RuleLists, properties \in PropInputs :
        /\ registrations = NoRegistrations
        /\ sessions = NoSessions
        /\ last = Call("none", "-", [rules |-> rules, properties |-> properties],
                       "none", <<>>, <<>>, NullSession)
        /\ held = NothingHeld
        /\ owners = NoOwners
        /\ NoProcess

NextSet == Construct(last.arg.rules, last.arg.properties)

SpecSet == InitSet /\ [][NextSet]_vars

\* SpecAdmin: the administrator and the runtime: rule sets are registered, replaced and
\* deregistered under two names while a session is created and used.
InitAdmin ==
    \E es \in AdminSets :
        /\ registrations = AdminRegister(NoRegistrations, "rs", es).registrations
        /\ sessions = NoSessions
        /\ last = Call("register_rule_execution_set", "-",
                       [name |-> StrArg("rs"), execution_set |-> SetArg(es)], "none",
                       <<>>, <<>>, [registrations |-> NoRegistrations, sessions |-> NoSessions,
                                    held |-> NothingHeld])
        /\ held = NothingHeld
        /\ owners = NoOwners
        /\ NoProcess

NextAdmin ==
    \/ \E nameArg \in AdminNameArgs, esArg \in AdminSetArgs : Register(nameArg, esArg)
    \/ \E name \in AdminNames : Deregister(name)
    \/ \E sid \in SessionIds, uri \in AdminNames, st \in StatelessArgs :
            CreateSession(sid, uri, st)
    \/ \E sid \in SessionIds, arg \in AddFactsArgs : AddFacts(sid, arg)
    \/ \E sid \in SessionIds : Execute(sid, FALSE)

SpecAdmin == InitAdmin /\ [][NextAdmin]_vars

\* SpecProv: the provider registry and the providers behind it. The initial state is
\* the one `import machine_rules` leaves: initialize() has registered one provider
\* under "api", "inmemory" and "machine". Providers are created, registered, looked up
\* and deregistered, rule sets are registered with their administrators and resolved
\* by their runtimes, and POST /execute requests are answered.
ProviderIds == {"p1", "p2"}

ProviderUriArgs == {"api", "other"}

EngineNames == {"rs"}

Requests == { Request(facts, uri) : facts \in {<<>>, <<2>>}, uri \in {"rs", "missing"} }

InitProv ==
    /\ registrations = NoRegistrations
    /\ sessions = NoSessions
    /\ held = NothingHeld
    /\ owners = NoOwners
    /\ providers = Initialize(<<>>, "p1")
    /\ engines = ("p1" :> NewEngine)
    /\ threads = NoThreads
    /\ lock = "free"
    /\ last = Call("initialize", "-", <<>>, "none", <<>>, <<>>,
                   [providers |-> <<>>, engines |-> NoEngines])

NextProv ==
    \/ \E p \in ProviderIds : CreateProvider(p)
    \/ \E uri \in ProviderUriArgs, p \in ProviderIds : ProviderRegister(uri, p)
    \/ \E uri \in ProviderUriArgs : ProviderGet(uri)
    \/ \E uri \in ProviderUriArgs : ProviderDeregister(uri)
    \/ ProviderUris
    \/ \E p \in ProviderIds, name \in EngineNames, es \in AdminSets :
            EngineRegister(p, StrArg(name), SetArg(es))
    \/ \E p \in ProviderIds, name \in EngineNames : EngineDeregister(p, name)
    \/ \E p \in ProviderIds, uri \in EngineNames : EngineCreateSession(p, uri)
    \/ \E p \in ProviderIds : EngineRuntimeGetRegistrations(p)
    \/ \E p \in ProviderIds : EngineGetRegistrations(p)
    \/ \E request \in Requests : HttpExecute(request)

SpecProv == InitProv /\ [][NextProv]_vars

\* SpecInit: the package as `import machine_rules` leaves it, used through the three
\* URIs that initialize() registers: the provider is looked up under one of them, and a
\* rule set is registered with its administrator, deregistered, or resolved by its
\* runtime.
DefaultUris == {"api", "inmemory", "machine"}

\* an initialize() that makes a provider for each URI
InitializedSeparately ==
    [providers |-> <<Entry("api", "p1"), Entry("inmemory", "p2"), Entry("machine", "p3")>>,
     engines |-> [p \in {"p1", "p2", "p3"} |-> NewEngine]]

\* the provider registry and the providers after initialize()
Initialized ==
    [providers |-> Initialize(<<>>, "p1"), engines |-> ("p1" :> NewEngine)]

InitInit ==
    /\ registrations = NoRegistrations
    /\ sessions = NoSessions
    /\ held = NothingHeld
    /\ owners = NoOwners
    /\ providers = Initialized.providers
    /\ engines = Initialized.engines
    /\ threads = NoThreads
    /\ lock = "free"
    /\ last = Call("initialize", "-", <<>>, "none", <<>>, <<>>,
                   [providers |-> <<>>, engines |-> NoEngines])

NextInit ==
    \/ \E uri \in DefaultUris, name \in AdminNameArgs, es \in AdminSetArgs :
            EngineRegister(ManagerGet(providers, uri), name, es)
    \/ \E uri \in DefaultUris, name \in AdminNames :
            EngineDeregister(ManagerGet(providers, uri), name)
    \/ \E uri \in DefaultUris, name \in AdminNames :
            EngineCreateSession(ManagerGet(providers, uri), name)

SpecInit == InitInit /\ [][NextInit]_vars

\* SpecRace: threads on the provider registry. After initialize(), every thread
\* registers a provider of its own under a URI of its own and makes one more call,
\* after it (a lookup of its URI, a deregistration of "api", a listing) or before it
\* (a lookup of "api"). The calls of different threads interleave at the dict operations.
ThreadIds == {"t1", "t2", "t3"}

\* the programs of thread t: its URI and its provider are named after it
ManagerPrograms(t) ==
    { <<ThreadCall("register", t, t), c>> :
        c \in {ThreadCall("get", t, "-"), ThreadCall("deregister", "api", "-"),
               ThreadCall("get_registered_uris", "-", "-")} }
    \cup
    { <<ThreadCall("get", "api", "-"), ThreadCall("register", t, t)>> }

InitRace ==
    /\ registrations = NoRegistrations
    /\ sessions = NoSessions
    /\ held = NothingHeld
    /\ owners = NoOwners
    /\ providers = Initialize(<<>>, "p1")
    /\ engines = ("p1" :> NewEngine)
    /\ \E programs \in [ThreadIds -> UNION { ManagerPrograms(t) : t \in ThreadIds }] :
          /\ \A t \in ThreadIds : programs[t] \in ManagerPrograms(t)
          /\ threads = [t \in ThreadIds |-> ThreadStart(programs[t])]
    /\ lock = "free"
    /\ last = Call("initialize", "-", <<>>, "none", <<>>, <<>>,
                   [providers |-> <<>>, engines |-> NoEngines])

NextRace ==
    \/ \E t \in ThreadIds : ManagerCall(t)
    \/ \E t \in ThreadIds : ManagerStep(t)

SpecRace == InitRace /\ [][NextRace]_vars

\* SpecLock: threads on one administrator and its runtime. One rule set is registered
\* as "rs"; every thread registers a rule set of its own under a name of its own and
\* makes one more call: the first thread a session on its name or a copy of the
\* registrations, the second a session on its name or a deregistration of "rs", the
\* others, before they register, the runtime's listing or a session on "rs".
\* The calls of different threads interleave at the lock and at the dict operations.
OwnSet(t) == RuleExecutionSet(t, <<RuleNamed("a")>>, NoneProps)

AdminPrograms(t) ==
    IF t = "t1"
    THEN { <<ThreadCall("register_rule_execution_set", t, OwnSet(t)), c>> :
             c \in {ThreadCall("create_rule_session", t, NoSet),
                    ThreadCall("get_registrations", "-", NoSet)} }
    ELSE IF t = "t2"
    THEN { <<ThreadCall("register_rule_execution_set", t, OwnSet(t)), c>> :
             c \in {ThreadCall("create_rule_session", t, NoSet),
                    ThreadCall("deregister_rule_execution_set", "rs", NoSet)} }
    ELSE { <<c, ThreadCall("register_rule_execution_set", t, OwnSet(t))>> :
             c \in {ThreadCall("runtime_get_registrations", "-", NoSet),
                    ThreadCall("create_rule_session", "rs", NoSet)} }

InitLock ==
    /\ registrations = AdminRegister(NoRegistrations, "rs",
                                     RuleExecutionSet("rs", <<RuleNamed("a")>>, NoneProps)
                                    ).registrations
    /\ sessions = NoSessions
    /\ held = NothingHeld
    /\ owners = NoOwners
    /\ providers = <<>>
    /\ engines = NoEngines
    /\ \E programs \in [ThreadIds -> UNION { AdminPrograms(t) : t \in ThreadIds }] :
          /\ \A t \in ThreadIds : programs[t] \in AdminPrograms(t)
          /\ threads = [t \in ThreadIds |-> ThreadStart(programs[t])]
    /\ lock = "free"
    /\ last = Call("register_rule_execution_set", "-", <<>>, "none", <<>>, <<>>,
                   [registrations |-> NoRegistrations, sessions |-> NoSessions,
                    held |-> NothingHeld])

NextLock ==
    \/ \E t \in ThreadIds : AdminCall(t)
    \/ \E t \in ThreadIds : AdminAcquire(t)
    \/ \E t \in ThreadIds : AdminStep(t)
    \/ \E t \in ThreadIds : AdminRelease(t)

SpecLock == InitLock /\ [][NextLock]_vars

\* SpecEval: safe_eval applied to every expression made of up to three pieces of text,
\* with and without bindings. The initial states hold the arguments of the call to come.
\* The pieces of text: __import__, ('f'), ().__class__, .__bases__[0], .__subclasses__(),
\* lambda, " x: x", compile, open, OPEN, Lambda, op, en, x, a space, 1+1.
Txt ==
    [ import |-> <<"_", "_", "i", "m", "p", "o", "r", "t", "_", "_">>,
      callArg |-> <<"(", "'", "f", "'", ")">>,
      class |-> <<"(", ")", ".", "_", "_", "c", "l", "a", "s", "s", "_", "_">>,
      bases |-> <<".", "_", "_", "b", "a", "s", "e", "s", "_", "_", "[", "0", "]">>,
      subclasses |-> <<".", "_", "_", "s", "u", "b", "c", "l", "a", "s", "s", "e", "s", "_", "_", "(", ")">>,
      lambda |-> <<"l", "a", "m", "b", "d", "a">>,
      lambdaBody |-> <<" ", "x", ":", " ", "x">>,
      compile |-> <<"c", "o", "m", "p", "i", "l", "e">>,
      open |-> <<"o", "p", "e", "n">>,
      openUpper |-> <<"O", "P", "E", "N">>,
      lambdaMixed |-> <<"L", "a", "m", "b", "d", "a">>,
      op |-> <<"o", "p">>,
      en |-> <<"e", "n">>,
      x |-> <<"x">>,
      space |-> <<" ">>,
      sum |-> <<"1", "+", "1">> ]

Fragments == { Txt[k] : k \in DOMAIN Txt }

Expressions ==
    { TextArg(a \o b \o c) : a \in Fragments \cup {<<>>}, b \in Fragments \cup {<<>>},
                              c \in Fragments \cup {<<>>} }
    \cup {NotText}

\* names: the variables the expression may use
Bindings == { {}, {"x", "open", "compile"} }

InitEval ==
    \E expression \in Expressions, names \in Bindings, available \in BOOLEAN :
        /\ registrations = NoRegistrations
        /\ sessions = NoSessions
        /\ last = Call("none", "-", [available |-> available, expression |-> expression,
                                     names |-> names],
                       "none", <<>>, <<>>, NullSession)
        /\ held = NothingHeld
        /\ owners = NoOwners
        /\ NoProcess

NextEval == \E outcome \in EvaluatorOutcomes : SafeEvalCall(outcome)

SpecEval == InitEval /\ [][NextEval]_vars

\* SpecTree: safe_eval applied to the text of expressions of every node class, with the
\* names unbound, with fact bound, and with x, open and compile bound. The initial states
\* hold the arguments of the call to come.
Id ==
    [ import |-> <<"_", "_", "i", "m", "p", "o", "r", "t", "_", "_">>,
      class |-> <<"_", "_", "c", "l", "a", "s", "s", "_", "_">>,
      bases |-> <<"_", "_", "b", "a", "s", "e", "s", "_", "_">>,
      subclasses |-> <<"_", "_", "s", "u", "b", "c", "l", "a", "s", "s", "e", "s", "_", "_">>,
      compile |-> <<"c", "o", "m", "p", "i", "l", "e">>,
      open |-> <<"o", "p", "e", "n">>,
      opened |-> <<"o", "p", "e", "n", "e", "d">>,
      fact |-> <<"f", "a", "c", "t">>,
      count |-> <<"c", "o", "u", "n", "t">>,
      missing |-> <<"m", "i", "s", "s", "i", "n", "g">>,
      int |-> <<"i", "n", "t">>,
      str |-> <<"s", "t", "r">>,
      none |-> <<"N", "o", "n", "e">>,
      x |-> <<"x">>,
      f |-> <<"f">> ]

Tree ==
    LET Name(id) == Node("Name", id, <<>>)
        Num(digit) == Node("Num", <<digit>>, <<>>)
        StrF == Node("Str", Id.f, <<>>)
        Empty == Node("Tuple", <<>>, <<>>)
        CallOn(func, argument) == Node("Call", <<>>, <<func, argument>>)
        Attr(value, id) == Node("Attribute", id, <<value>>)
    IN  [ import |-> CallOn(Name(Id.import), StrF),
          chain |-> Node("Call", <<>>,
                         <<Attr(Node("Subscript", <<>>,
                                     <<Attr(Attr(Empty, Id.class), Id.bases), Num("0")>>),
                                Id.subclasses)>>),
          lambda |-> Node("Lambda", Id.x, <<Name(Id.x)>>),
          compile |-> CallOn(Name(Id.compile), StrF),
          open |-> CallOn(Name(Id.open), StrF),
          openUpper |-> CallOn(Name(<<"O", "P", "E", "N">>), StrF),
          openBlank |-> Node("Call", <<" ">>, <<Name(Id.open), StrF>>),
          opened |-> Name(Id.opened),
          sum |-> Node("BinOp", <<"+">>, <<Num("1"), Num("1")>>),
          quotient |-> Node("BinOp", <<"/">>, <<Num("1"), Num("0")>>),
          mixed |-> Node("BinOp", <<"+">>, <<StrF, Num("1")>>),
          big |-> Node("Compare", <<">">>, <<Name(Id.fact), Num("1")>>),
          zero |-> Num("0"),
          x |-> Name(Id.x),
          fact |-> Name(Id.fact),
          none |-> Node("None", Id.none, <<>>),
          text |-> StrF,
          strCall |-> CallOn(Name(Id.str), Num("1")),
          intCall |-> CallOn(Name(Id.int), StrF),
          xCall |-> CallOn(Name(Id.x), Num("1")),
          lambdaCall |-> CallOn(Node("Lambda", Id.x, <<Name(Id.x)>>), Num("1")),
          count |-> Attr(Empty, Id.count),
          countCall |-> CallOn(Attr(Empty, Id.count), Num("1")),
          missing |-> Attr(Empty, Id.missing),
          first |-> Node("Subscript", <<>>, <<Empty, Num("0")>>),
          letter |-> Node("Subscript", <<>>, <<StrF, Num("0")>>) ]

Trees == { Tree[k] : k \in DOMAIN Tree }

NoNames == [id \in {} |-> PyNone]

TreeNames ==
    { NoNames, FactNames(2),
      (Id.x :> PyValue("int", 1)) @@ (Id.open :> PyValue("function", 0))
          @@ (Id.compile :> PyValue("function", 0)) }

\* safe_eval(expression, names) on the arguments the state holds
SafeEvalTree ==
    /\ last.op = "none"
    /\ LET r == SafeEvalOf(last.arg.available, last.arg.tree, last.arg.names)
       IN  last' = Call("safe_eval", "-", last.arg, r.raised, r, <<>>, NullSession)
    /\ UNCHANGED <<sessionVars, processVars>>

InitTree ==
    \E tree \in Trees, names \in TreeNames, available \in BOOLEAN :
        /\ registrations = NoRegistrations
        /\ sessions = NoSessions
        /\ last = Call("none", "-", [available |-> available,
                                     expression |-> TextArg(Unparse(tree)),
                                     tree |-> tree, names |-> names],
                       "none", <<>>, <<>>, NullSession)
        /\ held = NothingHeld
        /\ owners = NoOwners
        /\ NoProcess

NextTree == SafeEvalTree

SpecTree == InitTree /\ [][NextTree]_vars

\* SpecLoad: from_dict applied to documents with and without a name, with and without a
\* rules list, whose rules are sound, lack a field, hold a priority written as a str or
\* hold an expression the schema or safe_eval objects to. The initial states hold the
\* document of the call to come.
Sound == [ name |-> StrOf(<<"r">>), condition |-> Expr(Tree.sum),
           action |-> Expr(Tree.text), priority |-> Absent ]

RuleDefinitions ==
    { [Sound EXCEPT !.condition = Expr(Tree.big), !.priority = IntOf(10)],
      Sound,
      [Sound EXCEPT !.name = Absent],
      [Sound EXCEPT !.name = StrOf(<<>>)],
      [Sound EXCEPT !.condition = Absent],
      [Sound EXCEPT !.action = Absent],
      [Sound EXCEPT !.condition = Expr(Tree.import)],
      [Sound EXCEPT !.action = Expr(Tree.openBlank)],
      [Sound EXCEPT !.action = Expr(Tree.openUpper)],
      [Sound EXCEPT !.condition = Expr(Tree.lambda)],
      [Sound EXCEPT !.priority = StrOf(<<"h", "i", "g", "h">>)],
      [Sound EXCEPT !.priority = StrOf(<<"1", "0">>)] }

Documents ==
    { [name |-> name, rules |-> rules] :
        name \in {StrOf(<<"s", "e", "t">>), StrOf(<<>>), Absent},
        rules \in {[kind |-> "missing", items |-> <<>>], [kind |-> "str", items |-> <<>>]}
                  \cup { [kind |-> "list", items |-> items] :
                            items \in SeqsUpTo(RuleDefinitions, MaxRules) } }

\* YAMLRuleLoader.from_dict(data) on the document the state holds
FromDictCall ==
    /\ last.op = "none"
    /\ LET r == FromDict(last.arg)
       IN  last' = Call("from_dict", "-", last.arg, r.raised, r.ret, <<>>, NullSession)
    /\ UNCHANGED <<sessionVars, processVars>>

InitLoad ==
    \E data \in Documents :
        /\ registrations = NoRegistrations
        /\ sessions = NoSessions
        /\ last = Call("none", "-", data, "none", <<>>, <<>>, NullSession)
        /\ held = NothingHeld
        /\ owners = NoOwners
        /\ NoProcess

NextLoad == FromDictCall

SpecLoad == InitLoad /\ [][NextLoad]_vars

\* SpecYaml: execute() on sessions over the rules from_dict made of a document the schema
\* accepts. The rule set is the one from_dict returned, or one of strategy FIRST_MATCH
\* built from its rules; the facts were handed over by one add_facts call.
LoadedDefinitions ==
    { [Sound EXCEPT !.condition = Expr(Tree.big), !.priority = IntOf(10)],
      Sound,
      [Sound EXCEPT !.action = Expr(Tree.quotient), !.priority = IntOf(10)],
      [Sound EXCEPT !.condition = Expr(Tree.lambda), !.priority = IntOf(10)] }

LoadedSets ==
    LET Loaded(items) == FromDict([name |-> StrOf(<<"s", "e", "t">>),
                                   rules |-> [kind |-> "list", items |-> items]]).ret
    IN  UNION { { Loaded(items),
                  RuleExecutionSet(<<"s", "e", "t">>, GetRules(Loaded(items)),
                                   DictProps([strategy |-> "FIRST_MATCH"])) } :
                items \in SeqsUpTo(LoadedDefinitions, MaxRules) }

InitYaml ==
    \E es \in LoadedSets, facts \in SeqsUpTo(FactValues, MaxFacts) :
        /\ registrations = AdminRegister(NoRegistrations, "rs", es).registrations
        /\ sessions = ("s1" :> SessionAddFacts(NewSession(es, FALSE), ListArg(facts)).session)
        /\ last = Call("add_facts", "s1", ListArg(facts), "none",
                       <<>>, <<>>, NewSession(es, FALSE))
        /\ held = NothingHeld
        /\ owners = ("s1" :> Idle(sessions["s1"]))
        /\ NoProcess

NextYaml == \E sid \in SessionIds : Execute(sid, FALSE)

SpecYaml == InitYaml /\ [][NextYaml]_vars

\* SpecRun: execute() taken one pending fact at a time, on sessions just created for a
\* rule set of rules with conditions and actions of every kind (true, false, raising;
\* a result, None, raising), whose facts were handed over by one add_facts call. The
\* thread that called execute() keeps running until the call returns.
RunSets ==
    { RuleExecutionSet("set", rl, p) :
        rl \in SeqsUpTo({ r \in RulePool : r.name \in {"b", "c", "d", "e"} }, MaxRules),
        p \in PropInputs }

InitRun ==
    \E es \in RunSets, st \in BOOLEAN, facts \in SeqsUpTo(FactValues, MaxFacts) :
        /\ registrations = AdminRegister(NoRegistrations, "rs", es).registrations
        /\ sessions = ("s1" :> SessionAddFacts(NewSession(es, st), ListArg(facts)).session)
        /\ last = Call("add_facts", "s1", ListArg(facts), "none",
                       <<>>, <<>>, NewSession(es, st))
        /\ held = NothingHeld
        /\ owners = ("s1" :> Idle(sessions["s1"]))
        /\ NoProcess

NextRun ==
    \/ \E sid \in SessionIds : ExecuteBegin(sid)
    \/ \E sid \in SessionIds : ExecuteFact(sid)
    \/ \E sid \in SessionIds : ExecuteEnd(sid)

SpecRun ==
    /\ InitRun
    /\ [][NextRun]_vars
    /\ \A sid \in SessionIds : WF_vars(ExecuteFact(sid) \/ ExecuteEnd(sid))

\* SpecSnap: the administrator's registrations and the mappings get_registrations()
\* hands out: a caller keeps the returned mapping and changes it in place while rule
\* sets are registered and deregistered.
NextSnap ==
    \/ \E nameArg \in AdminNameArgs, esArg \in AdminSetArgs : Register(nameArg, esArg)
    \/ \E name \in AdminNames : Deregister(name)
    \/ GetRegistrationsCall
    \/ \E v \in MappingMutations(held.value, AdminSets) : MutateSnapshot(v)

SpecSnap == InitAdmin /\ [][NextSnap]_vars

\* SpecAlias: a caller holds on to the lists and dicts that cross the API (the
\* constructor's arguments, the values of get_rules(), get_properties() and execute())
\* and changes them in place. The initial states are a rule set built from the
\* caller's arguments and registered under "rs", and a session for it with pending
\* facts; the caller still holds one of the two constructor arguments.
AliasRuleLists == SeqsUpTo({RuleNamed("a"), RuleNamed("b")}, MaxRules)

AliasFacts == {<<2>>, <<1, 2>>}

InitAlias ==
    \E rules \in AliasRuleLists, properties \in PropInputs, st \in BOOLEAN,
       facts \in AliasFacts, kept \in {"rules", "properties"} :
        LET es == RuleExecutionSet("set", rules, properties)
        IN  /\ registrations = AdminRegister(NoRegistrations, "rs", es).registrations
            /\ sessions = ("s1" :> SessionAddFacts(NewSession(es, st), ListArg(facts)).session)
            /\ last = Call("add_facts", "s1", ListArg(facts), "none",
                           <<>>, <<>>, NewSession(es, st))
            /\ held = IF kept = "rules"
                      THEN RulesArgument("rs", rules)
                      ELSE IF properties.isNone
                      THEN NothingHeld
                      ELSE PropertiesArgument("rs", properties)
            /\ owners = ("s1" :> Idle(sessions["s1"]))
            /\ NoProcess

NextAlias ==
    \/ GetRulesCall("rs")
    \/ GetPropertiesCall("rs")
    \/ \E sid \in SessionIds : Execute(sid, TRUE)
    \/ \E sid \in SessionIds, v \in Mutations(held) : Mutate(sid, v)

SpecAlias == InitAlias /\ [][NextAlias]_vars

\* SpecTwo: two sessions, each with an owner of its own, over two registered rule
\* sets. execute() is taken in steps (its head, one step per pending fact, its tail),
\* so that the calls of one owner fall between the steps of the other's execute().
TwoSessionIds == {"s1", "s2"}

\* one fact per add_facts call, a fact for which every condition of the pool holds
TwoFactsArgs == {ListArg(<<2>>)}

InitTwo ==
    \E es1 \in AdminSets : \E es2 \in AdminSets \ {es1} :
        /\ registrations = AdminRegister(AdminRegister(NoRegistrations, "rs", es1).registrations,
                                         "rs2", es2).registrations
        /\ sessions = NoSessions
        /\ last = Call("register_rule_execution_set", "-",
                       [name |-> StrArg("rs2"), execution_set |-> SetArg(es2)], "none",
                       <<>>, <<>>, [registrations |-> NoRegistrations, sessions |-> NoSessions,
                                    held |-> NothingHeld])
        /\ held = NothingHeld
        /\ owners = NoOwners
        /\ NoProcess

NextTwo ==
    \/ \E sid \in TwoSessionIds, uri \in AdminNames, st \in StatelessArgs :
            CreateSession(sid, uri, st)
    \/ \E sid \in TwoSessionIds, arg \in TwoFactsArgs : AddFacts(sid, arg)
    \/ \E sid \in TwoSessionIds : ExecuteBegin(sid)
    \/ \E sid \in TwoSessionIds : ExecuteFact(sid)
    \/ \E sid \in TwoSessionIds : ExecuteEnd(sid)
    \/ \E sid \in TwoSessionIds : Reset(sid)
    \/ \E sid \in TwoSessionIds : Close(sid)

SpecTwo == InitTwo /\ [][NextTwo]_vars

----------------------------------------------------------------------------
(* Vocabulary of the properties *)

\* the session the last call was made on, now and before the call
Cur == sessions[last.sid]
Pre == last.pre

\* the last call was an execute() that returned
Ran == last.op = "execute" /\ last.raised = "none"

\* the rule list and the pending facts that execute() scanned
RanRules == GetRules(Pre.execution_set)
RanFacts == Pre.facts
RanStrategyProp == GetProperties(Pre.execution_set)

\* the evaluations that put a result into the results list, in the order they happened
Emits == SelectSeq(last.trace, LAMBDA e : e.what = "action" /\ e.out = "value")

\* the value the action of rule i returns for fact j
OutputOf(j, i) == ActEval(RanRules[i], RanFacts[j]).val

EmitValues == [k \in 1..Len(Emits) |-> OutputOf(Emits[k].fact, Emits[k].rule)]

\* (fact j, rule a) comes before (fact k, rule b) in fact order, then rule order
Before(j, a, k, b) == j < k \/ (j = k /\ a < b)

\* the evaluations execute() made for fact j
EventsOf(j) == SelectSeq(last.trace, LAMBDA e : e.fact = j)

\* rule r raises when it is tried on fact f
Raises(r, f) ==
    \/ CondEval(r, f) = "raise"
    \/ CondEval(r, f) = "true" /\ ActEval(r, f).kind = "raise"

\* the indexes of the rules whose condition is true for fact j
MatchingIdx(j) == { i \in 1..Len(RanRules) : CondEval(RanRules[i], RanFacts[j]) = "true" }

\* ... and whose action returns (a value or None)
CompletedIdx(j) == { i \in MatchingIdx(j) : ActEval(RanRules[i], RanFacts[j]).kind # "raise" }

MinOf(S) == CHOOSE m \in S : \A n \in S : m <= n

Values(rules, f) == [k \in 1..Len(rules) |-> ActEval(rules[k], f).val]

\* what the rules owe for one fact when every matching rule fires
AllOutputs(rules, f) ==
    Values(SelectSeq(rules, LAMBDA r : CondEval(r, f) = "true" /\ ActEval(r, f).kind = "value"), f)

\* what the rules owe for one fact once the rules that raise on it are left out
OutputsWithoutRaising(rules, f, strategy) ==
    LET live     == SelectSeq(rules, LAMBDA r : ~Raises(r, f))
        matching == SelectSeq(live, LAMBDA r : CondEval(r, f) = "true")
        chosen   == IF strategy = "FIRST_MATCH" /\ matching # <<>>
                    THEN <<Head(matching)>>
                    ELSE matching
    IN  Values(SelectSeq(chosen, LAMBDA r : ActEval(r, f).kind = "value"), f)

\* the results owed for a list of facts, fact by fact
RECURSIVE AllOutputsOver(_, _)
AllOutputsOver(rules, facts) ==
    IF facts = <<>>
    THEN <<>>
    ELSE AllOutputs(rules, Head(facts)) \o AllOutputsOver(rules, Tail(facts))

RECURSIVE OutputsWithoutRaisingOver(_, _, _)
OutputsWithoutRaisingOver(rules, facts, strategy) ==
    IF facts = <<>>
    THEN <<>>
    ELSE OutputsWithoutRaising(rules, Head(facts), strategy)
            \o OutputsWithoutRaisingOver(rules, Tail(facts), strategy)

Perms(n) == { p \in [1..n -> 1..n] : \A k, l \in 1..n : k # l => p[k] # p[l] }

----------------------------------------------------------------------------
(* Properties *)

\* C1: execute() returns the results in fact-arrival order and, within one fact, in
\* the order of the sorted rule list: the k-th result is the output of the k-th firing,
\* and result k precedes result l exactly when its (fact, rule) pair comes first.
C1_ResultOrder ==
    Ran =>
        /\ last.ret = EmitValues
        /\ \A k, l \in 1..Len(Emits) :
              (k < l) <=> Before(Emits[k].fact, Emits[k].rule, Emits[l].fact, Emits[l].rule)

\* two facts were scanned, one of them fired two rules of equal priority
C1_Witness ==
    /\ Ran
    /\ \E k, l \in 1..Len(Emits) :
          /\ k < l
          /\ Emits[k].fact = Emits[l].fact
          /\ RanRules[Emits[k].rule].priority = RanRules[Emits[l].rule].priority
    /\ \E k, l \in 1..Len(Emits) : Emits[k].fact < Emits[l].fact

\* C2: get_rules() is the constructor's rule list reordered by priority descending, rules
\* of equal priority in their input order: a permutation p of the input positions maps
\* output to input, and of two output positions the earlier has the higher priority or,
\* at equal priority, the earlier input position.
C2_SortedStable ==
    last.op = "RuleExecutionSet" =>
        LET in  == last.arg.rules
            out == GetRules(last.ret)
        IN  /\ Len(out) = Len(in)
            /\ \E p \in Perms(Len(in)) :
                  /\ \A k \in 1..Len(in) : out[k] = in[p[k]]
                  /\ \A k, l \in 1..Len(in) :
                        k < l => \/ out[k].priority > out[l].priority
                                 \/ /\ out[k].priority = out[l].priority
                                    /\ p[k] < p[l]

\* a list whose first rule has the lowest priority and whose other two rules tie
C2_Witness ==
    /\ last.op = "RuleExecutionSet"
    /\ Len(last.arg.rules) = 3
    /\ last.arg.rules[1].priority < last.arg.rules[2].priority
    /\ last.arg.rules[2].priority = last.arg.rules[3].priority
    /\ last.arg.rules[2] # last.arg.rules[3]

\* C3: under FIRST_MATCH every pending fact contributes at most one result, and when no
\* evaluation for the fact failed, its contribution is the output of the first rule in
\* sorted order whose condition is true (nothing when there is none or it returns None).
C3_FirstMatchOneResult ==
    (Ran /\ StrategyOf(Pre.execution_set) = "FIRST_MATCH") =>
        /\ last.ret = EmitValues
        /\ \A j \in 1..Len(RanFacts) :
              LET mine == SelectSeq(Emits, LAMBDA e : e.fact = j)
              IN  /\ Len(mine) <= 1
                  /\ (\A n \in 1..Len(EventsOf(j)) : EventsOf(j)[n].out # "raise") =>
                        IF MatchingIdx(j) = {}
                        THEN mine = <<>>
                        ELSE LET first == MinOf(MatchingIdx(j))
                             IN  IF ActEval(RanRules[first], RanFacts[j]).kind = "value"
                                 THEN Len(mine) = 1 /\ mine[1].rule = first
                                 ELSE mine = <<>>

\* a fact for which two rules match and return a value, and nothing failed
C3_Witness ==
    /\ Ran
    /\ StrategyOf(Pre.execution_set) = "FIRST_MATCH"
    /\ \E j \in 1..Len(RanFacts) :
          /\ \A n \in 1..Len(EventsOf(j)) : EventsOf(j)[n].out # "raise"
          /\ \E a, b \in MatchingIdx(j) :
                /\ a < b
                /\ ActEval(RanRules[a], RanFacts[j]).kind = "value"
                /\ ActEval(RanRules[b], RanFacts[j]).kind = "value"
    /\ Len(last.ret) = Len(RanFacts)
    /\ Len(RanFacts) = 2

\* C4 as stated: under FIRST_MATCH no rule behind the first rule whose condition is true
\* is evaluated for the fact, whatever that rule's action does.
C4_StopsAtFirstTrueCondition ==
    (Ran /\ StrategyOf(Pre.execution_set) = "FIRST_MATCH") =>
        \A j \in 1..Len(RanFacts) :
            MatchingIdx(j) # {} =>
                \A n \in 1..Len(EventsOf(j)) : EventsOf(j)[n].rule <= MinOf(MatchingIdx(j))

\* C4, amended: under FIRST_MATCH the scan of a fact stops at the first rule whose
\* condition is true and whose action returns (a value or None): no later rule is
\* evaluated for the fact; every rule up to it has its condition evaluated.
C4_StopsAtFirstCompletedMatch ==
    (Ran /\ StrategyOf(Pre.execution_set) = "FIRST_MATCH") =>
        \A j \in 1..Len(RanFacts) :
            LET stop == IF CompletedIdx(j) = {} THEN Len(RanRules) ELSE MinOf(CompletedIdx(j))
            IN  /\ \A n \in 1..Len(EventsOf(j)) : EventsOf(j)[n].rule <= stop
                /\ \A i \in 1..stop :
                      \E n \in 1..Len(EventsOf(j)) :
                          EventsOf(j)[n].rule = i /\ EventsOf(j)[n].what = "condition"

\* a matching rule whose action raised was passed over, the scan then stopped at a rule
\* whose action returned None, and a rule behind it was left alone
C4_Witness ==
    /\ Ran
    /\ StrategyOf(Pre.execution_set) = "FIRST_MATCH"
    /\ \E j \in 1..Len(RanFacts) :
          /\ CompletedIdx(j) # {}
          /\ MinOf(CompletedIdx(j)) < Len(RanRules)
          /\ ActEval(RanRules[MinOf(CompletedIdx(j))], RanFacts[j]).kind = "none"
          /\ MinOf(MatchingIdx(j)) < MinOf(CompletedIdx(j))

C6_ErrorIsolation ==
    (last.op = "execute" /\ ~Pre.closed) =>
        /\ last.raised = "none"
        /\ last.ret = OutputsWithoutRaisingOver(RanRules, RanFacts,
                                               StrategyOf(Pre.execution_set))

\* a rule raised for a fact and a rule behind it still produced that fact's result
C6_Witness ==
    /\ Ran
    /\ \E n \in 1..Len(last.trace) :
          /\ last.trace[n].out = "raise"
          /\ \E k \in 1..Len(Emits) :
                /\ Emits[k].fact = last.trace[n].fact
                /\ Emits[k].rule > last.trace[n].rule
    /\ \E n \in 1..Len(last.trace) :
          last.trace[n].what = "action" /\ last.trace[n].out = "raise"

\* C7: execute() changes nothing of the session but its buffers: the results become the
\* returned sequence, the pending facts of a stateless session become empty and those of
\* a stateful session stay what they were; a session is stateless exactly when
\* create_rule_session was given stateless=True.
C7_StatelessClearsStatefulKeeps ==
    /\ Ran => Cur = [Pre EXCEPT !.results = last.ret,
                                !.facts = IF Pre.stateless THEN <<>> ELSE Pre.facts]
    /\ (last.op = "create_rule_session" /\ last.raised = "none") =>
            (Cur.stateless <=> last.arg.stateless = "True")

\* a stateful session executed with two pending facts
C7_Witness ==
    /\ Ran
    /\ ~Pre.stateless
    /\ Len(Pre.facts) = 2

\* C8, for every execute(): the returned sequence is the new results buffer, it is what
\* a fresh session bound to the same rule set returns for the same pending facts, and
\* every pending fact is scanned.
C8_DependsOnFactsOnly ==
    Ran =>
        /\ Cur.results = last.ret
        /\ last.ret = SessionExecute([NewSession(Pre.execution_set, Pre.stateless)
                                        EXCEPT !.facts = Pre.facts]).ret
        /\ RanRules # <<>> => \A j \in 1..Len(RanFacts) : EventsOf(j) # <<>>

\* C8, for two execute() calls on a stateful session with nothing in between: they
\* return equal sequences.
C8_RepeatedExecute ==
    (Ran /\ ~Pre.stateless /\ last'.op = "execute" /\ last'.sid = last.sid) =>
        last'.ret = last.ret

\* C8: the results buffer is reset at the start of every execute(), so that the returned
\* sequence depends only on the pending facts and the bound rule set.
C8_ResultsResetEachExecute == []C8_DependsOnFactsOnly /\ [][C8_RepeatedExecute]_vars

\* a stateful session that held the results of an earlier execute() for one fact is
\* executed again with a second fact added
C8_Witness ==
    /\ Ran
    /\ ~Pre.stateless
    /\ Pre.results # <<>>
    /\ Len(RanFacts) = 2
    /\ Len(last.ret) > Len(Pre.results)

\* C9: on a closed session add_facts, execute and reset fail with SessionError and leave
\* the session (facts, results, closed flag) as it was.
C9_ClosedSessionRejects ==
    (last.op \in {"add_facts", "execute", "reset"} /\ Pre.closed) =>
        /\ last.raised = "SessionError"
        /\ Cur = Pre

\* add_facts with a non-empty list on a closed session
C9_Witness ==
    /\ last.op = "add_facts"
    /\ Pre.closed
    /\ last.arg.isList
    /\ last.arg.items # <<>>

\* C10: close() on a closed session raises nothing and leaves the session closed with
\* both buffers empty.
C10_SecondCloseNoOp ==
    (last.op = "close" /\ Pre.closed) =>
        /\ last.raised = "none"
        /\ Cur.closed
        /\ Cur.facts = <<>>
        /\ Cur.results = <<>>

\* a close() on a session that was closed before
C10_Witness ==
    /\ last.op = "close"
    /\ Pre.closed

\* C11: reset() on an open session raises nothing and leaves the session as
\* create_rule_session made it: open, bound to the same rule set, in the same mode,
\* with no pending facts and no results, so that what add_facts and execute() do next
\* is what they do on a freshly created session.
C11_ResetLikeFresh ==
    (last.op = "reset" /\ ~Pre.closed) =>
        /\ last.raised = "none"
        /\ Cur = NewSession(Pre.execution_set, Pre.stateless)
        /\ ~Cur.closed
        /\ \A arg \in AddFactsArgs :
              SessionExecute(SessionAddFacts(Cur, arg).session)
                = SessionExecute(SessionAddFacts(
                      NewSession(Pre.execution_set, Pre.stateless), arg).session)

\* reset() on an open session that held pending facts and results
C11_Witness ==
    /\ last.op = "reset"
    /\ ~Pre.closed
    /\ Pre.facts # <<>>
    /\ Pre.results # <<>>

\* C13: add_facts(L) with a list L on an open session raises nothing, makes the pending
\* buffer the old buffer followed by the elements of L in their order, duplicates kept,
\* and changes nothing else of the session (results, mode, rule set, open).
C13_AddFactsAppends ==
    (last.op = "add_facts" /\ ~Pre.closed /\ last.arg.isList) =>
        /\ last.raised = "none"
        /\ Len(Cur.facts) = Len(Pre.facts) + Len(last.arg.items)
        /\ \A k \in 1..Len(Pre.facts) : Cur.facts[k] = Pre.facts[k]
        /\ \A k \in 1..Len(last.arg.items) :
              Cur.facts[Len(Pre.facts) + k] = last.arg.items[k]
        /\ Cur.results = Pre.results
        /\ Cur = [Pre EXCEPT !.facts = Cur.facts]

\* a fact that is already pending is added again, to a session that holds results
C13_Witness ==
    /\ last.op = "add_facts"
    /\ ~Pre.closed
    /\ last.arg.isList
    /\ Pre.results # <<>>
    /\ last.arg.items # <<>>
    /\ \E k \in 1..Len(Pre.facts) : Pre.facts[k] = last.arg.items[1]
    /\ Pre.facts # Cur.facts

\* C14 as stated, for every session: add_facts with an argument that is not a list
\* fails with RuleValidationError and leaves both buffers unchanged.
C14_NonListRejected ==
    (last.op = "add_facts" /\ ~last.arg.isList) =>
        /\ last.raised = "RuleValidationError"
        /\ Cur.facts = Pre.facts
        /\ Cur.results = Pre.results

\* C14 for open sessions: add_facts with an argument that is not a list fails with
\* RuleValidationError and leaves both buffers unchanged; on a closed session the
\* failure is SessionError, the buffers unchanged as well.
C14_NonListRejectedWhenOpen ==
    (last.op = "add_facts" /\ ~last.arg.isList) =>
        /\ last.raised = IF Pre.closed THEN "SessionError" ELSE "RuleValidationError"
        /\ Cur.facts = Pre.facts
        /\ Cur.results = Pre.results

\* a non-list is handed to an open session that holds pending facts and results
C14_Witness ==
    /\ last.op = "add_facts"
    /\ ~last.arg.isList
    /\ ~Pre.closed
    /\ Pre.facts # <<>>
    /\ Pre.results # <<>>

\* C15: create_rule_session(uri) fails with RuleValidationError and creates no session
\* when uri is not registered at the time of the call; when it is registered the call
\* returns an open session with no pending facts and no results that is bound to the
\* rule set registered under uri, in the mode asked for.
C15_CreateNeedsRegistration ==
    last.op = "create_rule_session" =>
        IF last.arg.uri \in DOMAIN registrations
        THEN /\ last.raised = "none"
             /\ last.sid \in DOMAIN sessions
             /\ Cur.execution_set = registrations[last.arg.uri]
             /\ Cur.facts = <<>>
             /\ Cur.results = <<>>
             /\ ~Cur.closed
             /\ Cur.stateless = (last.arg.stateless = "True")
        ELSE /\ last.raised = "RuleValidationError"
             /\ last.sid \notin DOMAIN sessions

\* a session is asked for "rs", which was registered at the start and deregistered
\* since, while another name is registered
C15_Witness ==
    /\ last.op = "create_rule_session"
    /\ last.arg.uri = "rs"
    /\ last.raised = "RuleValidationError"
    /\ "rs2" \in DOMAIN registrations

\* the arguments of the last register_rule_execution_set call pass its checks
ValidRegistration ==
    /\ last.arg.name.isStr
    /\ last.arg.name.str # ""
    /\ last.arg.execution_set.isSet

\* C16: register_rule_execution_set fails with RuleValidationError, the registrations
\* unchanged, when the name is empty or not a string or the execution_set is not a
\* RuleExecutionSet; otherwise it raises nothing and the name is bound to exactly the
\* rule set given.
C16_RegisterValidates ==
    last.op = "register_rule_execution_set" =>
        IF ValidRegistration
        THEN /\ last.raised = "none"
             /\ last.arg.name.str \in DOMAIN registrations
             /\ registrations[last.arg.name.str] = last.arg.execution_set.set
        ELSE /\ last.raised = "RuleValidationError"
             /\ registrations = last.pre.registrations

\* an object that is not a RuleExecutionSet is offered under a name that is bound
C16_Witness ==
    /\ last.op = "register_rule_execution_set"
    /\ last.arg.name.isStr
    /\ last.arg.name.str \in DOMAIN last.pre.registrations
    /\ ~last.arg.execution_set.isSet

\* C17: a registration under a name that is already bound replaces the binding: the
\* names registered are the same as before, the name is bound to the second rule set
\* alone (its rules and properties, none of the first set's), and every other name
\* keeps its binding.
C17_ReRegisterReplaces ==
    ( /\ last.op = "register_rule_execution_set"
      /\ ValidRegistration
      /\ last.arg.name.str \in DOMAIN last.pre.registrations ) =>
        /\ DOMAIN registrations = DOMAIN last.pre.registrations
        /\ Cardinality(DOMAIN registrations) = Cardinality(DOMAIN last.pre.registrations)
        /\ GetRules(registrations[last.arg.name.str])
              = GetRules(last.arg.execution_set.set)
        /\ GetProperties(registrations[last.arg.name.str])
              = GetProperties(last.arg.execution_set.set)
        /\ \A n \in DOMAIN registrations \ {last.arg.name.str} :
              registrations[n] = last.pre.registrations[n]

\* a name bound to one rule set is registered again with another, a second name bound
C17_Witness ==
    /\ last.op = "register_rule_execution_set"
    /\ ValidRegistration
    /\ last.arg.name.str \in DOMAIN last.pre.registrations
    /\ last.pre.registrations[last.arg.name.str] # last.arg.execution_set.set
    /\ Cardinality(DOMAIN last.pre.registrations) = 2

\* C18: a session evaluates against the RuleExecutionSet it was bound to when it was
\* created: no registration and no deregistration changes a session, and every
\* execute() returns what the rules and the strategy of the session's own rule set
\* yield for the pending facts.
C18_SessionKeepsItsRuleSet ==
    /\ last.op \in {"register_rule_execution_set", "deregister_rule_execution_set"} =>
          sessions = last.pre.sessions
    /\ Ran => last.ret = OutputsWithoutRaisingOver(GetRules(Pre.execution_set), RanFacts,
                                                   StrategyOf(Pre.execution_set))

\* the name was bound to another rule set while the session was open, and the session
\* then returned results that this other rule set would not have produced
C18_Witness ==
    /\ Ran
    /\ last.ret # <<>>
    /\ DOMAIN registrations # {}
    /\ \A n \in DOMAIN registrations :
          /\ registrations[n] # Pre.execution_set
          /\ last.ret # OutputsWithoutRaisingOver(GetRules(registrations[n]), RanFacts,
                                                  StrategyOf(registrations[n]))

\* C12: execute() returns a list of its own: a caller that changes the returned list in
\* place leaves the session, its results buffer included, as it was, and every
\* execute(), whatever was done to earlier returned lists, returns what a fresh session
\* bound to the same rule set returns for the same pending facts.
C12_ExecuteReturnsCopy ==
    /\ (last.op = "mutate" /\ last.arg.kind = "execute") => Cur = Pre
    /\ Ran => last.ret = SessionExecute([NewSession(Pre.execution_set, Pre.stateless)
                                           EXCEPT !.facts = Pre.facts]).ret

\* the caller changed the list that execute() returned, which held results, and the
\* list now differs from the session's results buffer
C12_Witness ==
    /\ last.op = "mutate"
    /\ last.arg.kind = "execute"
    /\ Pre.results # <<>>
    /\ held.value # Cur.results

\* C19: no change a caller makes in place to the rules list or the properties dict it
\* passed to the constructor, or to the values get_rules() and get_properties()
\* returned, changes the rule order or the properties (the strategy with them) of the
\* rule set a session is bound to.
C19_RuleSetImmutable ==
    (last.op = "mutate" /\ last.arg.kind # "execute") =>
        /\ GetRules(Cur.execution_set) = GetRules(Pre.execution_set)
        /\ GetProperties(Cur.execution_set) = GetProperties(Pre.execution_set)
        /\ StrategyOf(Cur.execution_set) = StrategyOf(Pre.execution_set)

\* C20: whatever the interleaving of the calls of two owners on their own sessions,
\* the steps of a running execute() included, each session between two of its calls
\* is (facts, results, closed flag, mode, rule set) what its owner's calls alone make it.
C20_SessionsIndependent ==
    \A sid \in DOMAIN sessions :
        owners[sid].pc = "idle" => sessions[sid] = owners[sid].alone

\* both owners are inside execute() at once, each past its first fact with results
\* collected, on sessions that differ
C20_Witness ==
    /\ DOMAIN sessions = TwoSessionIds
    /\ \A sid \in TwoSessionIds :
          /\ owners[sid].pc = "loop"
          /\ owners[sid].j = 2
          /\ sessions[sid].results # <<>>
    /\ sessions["s1"].facts # sessions["s2"].facts
    /\ sessions["s1"].execution_set # sessions["s2"].execution_set

\* C24: deregister_rule_execution_set(name) raises nothing; afterwards name is not
\* bound, whether it was bound before or not, and every other name is bound exactly
\* as before.
C24_DeregisterRemovesOnlyName ==
    last.op = "deregister_rule_execution_set" =>
        /\ last.raised = "none"
        /\ last.arg.name \notin DOMAIN registrations
        /\ DOMAIN registrations = DOMAIN last.pre.registrations \ {last.arg.name}
        /\ \A n \in DOMAIN registrations : registrations[n] = last.pre.registrations[n]
        /\ last.arg.name \notin DOMAIN last.pre.registrations
              => registrations = last.pre.registrations

\* a name that is not bound is deregistered while another name is bound
C24_Witness ==
    /\ last.op = "deregister_rule_execution_set"
    /\ last.arg.name \notin DOMAIN last.pre.registrations
    /\ DOMAIN registrations # {}

\* None, the value of an action that returns nothing
NoneValue == <<>>

\* C27: no entry of the sequence execute() returns is None: the sequence has one entry
\* per action that returned a value, so a fact no rule matches and a matching rule
\* whose action returns None add nothing, and the number of results need not be the
\* number of facts.
C27_NoNullResult ==
    Ran =>
        /\ \A k \in 1..Len(last.ret) : last.ret[k] # NoneValue
        /\ Len(last.ret) = Len(Emits)
        /\ \A j \in 1..Len(RanFacts) :
              MatchingIdx(j) = {} => ~ \E k \in 1..Len(Emits) : Emits[k].fact = j

\* of two facts one matched no rule, the other fired a rule that returned a value and
\* a rule that returned None: one result for two facts
C27_Witness ==
    /\ Ran
    /\ Len(RanFacts) = 2
    /\ MatchingIdx(1) = {}
    /\ \E i \in CompletedIdx(2) : ActEval(RanRules[i], RanFacts[2]).kind = "none"
    /\ Len(last.ret) = 1

\* C28: execute() returns the empty sequence when the bound rule set has no rules,
\* whatever the pending facts, and when no fact is pending, whatever the rule set.
C28_EmptyInputEmptyResult ==
    (Ran /\ (RanRules = <<>> \/ RanFacts = <<>>)) => last.ret = <<>>

\* a session that holds the results of an earlier execute() and has rules is executed
\* with no pending fact
C28_Witness ==
    /\ Ran
    /\ RanFacts = <<>>
    /\ RanRules # <<>>
    /\ Pre.results # <<>>

\* C23: get_registrations() returns a mapping of its own: a caller that changes the
\* returned mapping in place leaves the administrator's registrations as they were,
\* and a later register or deregister call leaves the returned mapping as it was.
C23_RegistrationsSnapshot ==
    /\ last.op = "get_registrations" => held.value = registrations
    /\ last.op = "mutate_snapshot" => registrations = last.pre.registrations
    /\ last.op \in {"register_rule_execution_set", "deregister_rule_execution_set"} =>
          held = last.pre.held

\* a rule set is registered after the caller took a snapshot: the snapshot, then equal
\* to the registrations, now differs from them
C23_Witness ==
    /\ last.op = "register_rule_execution_set"
    /\ held.kind = "get_registrations"
    /\ held.value = last.pre.registrations
    /\ held.value # registrations

\* the provider registry read as a map: the URIs it holds, and the provider of each
RegisteredUris(provs) == { provs[i].key : i \in 1..Len(provs) }
ProviderOf(provs, uri) == ManagerGet(provs, uri)

\* the registry holds each URI once
WellFormed(provs) == \A i, j \in 1..Len(provs) : provs[i].key = provs[j].key => i = j

\* the registries provs and pre bind every URI other than uri alike
SameElsewhere(provs, pre, uri) ==
    /\ RegisteredUris(provs) \ {uri} = RegisteredUris(pre) \ {uri}
    /\ \A u \in RegisteredUris(pre) \ {uri} : ProviderOf(provs, u) = ProviderOf(pre, u)

\* C25: the provider registry is a map from URI to provider. register(uri, p) makes
\* get(uri) return p, replacing an earlier provider of uri, and changes no other URI;
\* get(uri) returns the provider of uri, None when uri is not registered, and changes
\* nothing; deregister(uri) leaves uri unregistered, whether it was registered or not,
\* and changes no other URI; get_registered_uris() lists each registered URI once and
\* nothing else. No call fails.
C25_ProviderRegistryIsMap ==
    /\ WellFormed(providers)
    /\ last.op \in {"register", "get", "deregister", "get_registered_uris"} =>
          last.raised = "none"
    /\ last.op = "register" =>
          /\ ManagerGet(providers, last.arg.uri) = last.arg.provider
          /\ last.arg.uri \in RegisteredUris(providers)
          /\ SameElsewhere(providers, last.pre.providers, last.arg.uri)
    /\ last.op = "get" =>
          /\ providers = last.pre.providers
          /\ last.arg.uri \notin RegisteredUris(providers) => last.ret = NoProvider
          /\ last.arg.uri \in RegisteredUris(providers) =>
                \E i \in 1..Len(providers) :
                    providers[i] = Entry(last.arg.uri, last.ret)
    /\ last.op = "deregister" =>
          /\ last.arg.uri \notin RegisteredUris(providers)
          /\ ManagerGet(providers, last.arg.uri) = NoProvider
          /\ SameElsewhere(providers, last.pre.providers, last.arg.uri)
    /\ last.op = "get_registered_uris" =>
          /\ providers = last.pre.providers
          /\ { last.ret[i] : i \in 1..Len(last.ret) } = RegisteredUris(providers)
          /\ Len(last.ret) = Cardinality(RegisteredUris(providers))

\* a URI bound to one provider is registered again with another provider
C25_Witness ==
    /\ last.op = "register"
    /\ last.arg.uri \in RegisteredUris(last.pre.providers)
    /\ ProviderOf(last.pre.providers, last.arg.uri) # last.arg.provider
    /\ Len(providers) > 1

\* the calls made on one provider's administrator or runtime
OnProvider == last.op \in {"register_rule_execution_set", "deregister_rule_execution_set",
                           "create_rule_session"}
                 /\ "provider" \in DOMAIN last.arg

\* C26: provider instances have rule-set registries of their own. A new provider starts
\* with nothing registered; registering or deregistering a rule set with one provider's
\* administrator, or creating a session from its runtime, changes no registration of any
\* other provider, so what another provider's runtime resolves for a name stays as it
\* was.
C26_ProvidersIndependent ==
    /\ last.op = "MachineRuleServiceProvider" =>
          /\ engines[last.ret] = NoRegistrations
          /\ \A q \in DOMAIN last.pre.engines : engines[q] = last.pre.engines[q]
    /\ OnProvider =>
          \A q \in DOMAIN engines \ {last.arg.provider} :
              /\ engines[q] = last.pre.engines[q]
              /\ \A n \in EngineNames :
                    RuntimeCreateRuleSession(engines[q], n, "omitted")
                      = RuntimeCreateRuleSession(last.pre.engines[q], n, "omitted")

\* a rule set is registered with one provider under a name that another provider holds
\* for a different rule set
C26_Witness ==
    /\ last.op = "register_rule_execution_set"
    /\ "provider" \in DOMAIN last.arg
    /\ last.raised = "none"
    /\ \E q \in DOMAIN engines \ {last.arg.provider} :
          /\ last.arg.name.str \in DOMAIN engines[q]
          /\ engines[q][last.arg.name.str]
                # engines[last.arg.provider][last.arg.name.str]

\* C29: POST /execute with a ruleset_uri that the "api" provider has not registered is
\* answered with status 400.
C29_UnknownUriIsClientError ==
    ( /\ last.op = "POST /execute"
      /\ ManagerGet(last.pre.providers, "api") # NoProvider
      /\ last.arg.ruleset_uri
            \notin DOMAIN last.pre.engines[ManagerGet(last.pre.providers, "api")] )
    => last.ret.status = 400

\* thread th has completed a registration
HasRegistered(th) == \E i \in 1..th.at : th.program[i].op = "register"

\* thread th has completed all its calls
Finished(th) == th.pc = "idle" /\ th.at = Len(th.program)

\* C22: threads that register providers under pairwise distinct URIs on the one
\* provider registry, and look up, list or deregister other URIs meanwhile, do not
\* disturb each other: no call raises, the registry holds each URI once, from the
\* moment a thread's register has returned its URI resolves to its provider, a lookup
\* of its own URI after that returns its provider, and when all threads have finished
\* every thread's URI is registered.
C22_ConcurrentProviderRegistration ==
    /\ WellFormed(providers)
    /\ \A t \in DOMAIN threads :
          /\ ~threads[t].failed
          /\ HasRegistered(threads[t]) => ManagerGet(providers, t) = t
          /\ ( /\ threads[t].at = 2
               /\ threads[t].program[1].op = "register"
               /\ threads[t].program[2] = ThreadCall("get", t, "-") )
             => threads[t].ret = t
    /\ (\A t \in DOMAIN threads : Finished(threads[t])) =>
          DOMAIN threads \subseteq RegisteredUris(providers)

\* all threads have finished, and at least two registrations met a registry that another
\* thread had changed between their call and their store
C22_Witness ==
    /\ DOMAIN threads = ThreadIds
    /\ \A t \in ThreadIds : Finished(threads[t])
    /\ Cardinality({ t \in ThreadIds : threads[t].raced }) >= 2
    /\ ThreadIds \subseteq RegisteredUris(providers)
    /\ "api" \notin RegisteredUris(providers)

\* the call whose outcome thread th holds: the one inside the lock, or the last completed
OutcomeCall(th) == IF th.pc = "applied" THEN CurrentCall(th) ELSE th.program[th.at]

\* thread th holds the outcome of a call
HasOutcome(th) == th.pc = "applied" \/ (th.pc \in {"idle", "called", "locked"} /\ th.at > 0)

\* the call run alone on the registrations regs
Sequential(regs, c) == AdminApply(regs, regs, c)

\* C21: calls that several threads make at once on one administrator and its runtime
\* (register, deregister, get_registrations, create_rule_session, the runtime's
\* get_registrations) are linearizable. At most one thread is inside the lock; every
\* call returns or raises what it would if it ran alone on the registrations as they
\* were at one moment between its start and its end; while a thread is still inside the
\* lock the registrations are what its call alone would have made of them; and
\* registrations under pairwise distinct names all take effect: once a thread's
\* register has returned its name is bound to its rule set, a session it then creates
\* on that name is bound to that rule set, and when all threads have finished all their
\* names are registered.
C21_ConcurrentAdministration ==
    /\ \A t \in DOMAIN threads : threads[t].pc \in {"locked", "applied"} <=> lock = t
    /\ \A t \in DOMAIN threads :
          /\ HasOutcome(threads[t]) =>
                /\ threads[t].ret
                     = Sequential(threads[t].point, OutcomeCall(threads[t])).ret
                /\ threads[t].raised
                     = Sequential(threads[t].point, OutcomeCall(threads[t])).raised
          /\ threads[t].pc = "applied" =>
                registrations
                  = Sequential(threads[t].point, OutcomeCall(threads[t])).registrations
          /\ HasRegistered(threads[t]) =>
                /\ t \in DOMAIN registrations
                /\ registrations[t] = OwnSet(t)
          /\ ( /\ threads[t].at = 2
               /\ threads[t].program[1].op = "register_rule_execution_set"
               /\ threads[t].program[2].op = "create_rule_session" )
             => /\ threads[t].raised = "none"
                /\ threads[t].ret = NewSession(OwnSet(t), FALSE)
    /\ (\A t \in DOMAIN threads : Finished(threads[t])) =>
          DOMAIN threads \subseteq DOMAIN registrations

\* all threads have finished, at least two registrations waited while the registrations
\* changed under them, and another thread has deregistered "rs"
C21_Witness ==
    /\ DOMAIN threads = ThreadIds
    /\ \A t \in ThreadIds : Finished(threads[t])
    /\ Cardinality({ t \in ThreadIds : threads[t].raced }) >= 2
    /\ DOMAIN registrations = ThreadIds

\* the text holds, at some position and in whatever case, one of the dangerous substrings
HoldsDangerousSubstring(text) ==
    \E k \in 1..Len(DangerousPatterns) :
        \E i \in 1..Len(text) :
            /\ i + Len(DangerousPatterns[k]) - 1 <= Len(text)
            /\ \A j \in 1..Len(DangerousPatterns[k]) :
                  Lower(text[i + j - 1]) = Lower(DangerousPatterns[k][j])

\* an import invocation, an attribute chain from __class__ over __bases__ to
\* __subclasses__, a lambda, a compile call and an open call
RejectionSet ==
    { Txt.import \o Txt.callArg, Txt.class \o Txt.bases \o Txt.subclasses,
      Txt.lambda \o Txt.lambdaBody, Txt.compile \o Txt.callArg, Txt.open \o Txt.callArg }

\* C30: with simpleeval installed, safe_eval raises SecurityError, without handing the
\* expression to the evaluator and whatever the bindings, for every expression that
\* holds one of the dangerous substrings in whatever case; among them an import
\* invocation, a __class__/__bases__/__subclasses__ chain, a lambda, a compile call and
\* an open call.
C30_DangerousSubstringRejected ==
    ( /\ last.op = "safe_eval"
      /\ last.arg.available
      /\ last.arg.expression.isStr
      /\ \/ HoldsDangerousSubstring(last.arg.expression.text)
         \/ last.arg.expression.text \in RejectionSet )
    => /\ last.raised = "SecurityError"
       /\ ~last.ret.evaluated

\* an open call written in upper case, with open among the bindings, has been rejected
C30_Witness ==
    /\ last.op = "safe_eval"
    /\ last.arg.available
    /\ last.arg.expression = TextArg(Txt.openUpper \o Txt.callArg)
    /\ "open" \in last.arg.names
    /\ last.raised = "SecurityError"
    /\ ~last.ret.evaluated

\* session sid is closed with both buffers empty
ClosedAndEmpty(ss, sid) ==
    /\ sid \in DOMAIN ss
    /\ ss[sid].closed
    /\ ss[sid].facts = <<>>
    /\ ss[sid].results = <<>>

\* C34: closed is absorbing. A session that is closed has no pending facts and no
\* results, and whatever call comes next (add_facts, execute, reset, close, on this or
\* another session) it is closed with both buffers empty afterwards too.
C34_ClosedIsAbsorbing ==
    [][ \A sid \in DOMAIN sessions :
            sessions[sid].closed =>
                /\ ClosedAndEmpty(sessions, sid)
                /\ ClosedAndEmpty(sessions', sid) ]_vars

\* a reset() has been tried on a closed session, which is still closed
C34_Witness ==
    /\ last.op = "reset"
    /\ Pre.closed
    /\ ClosedAndEmpty(sessions, last.sid)

\* no condition and no action is evaluated twice for the same fact and rule
AtMostOnce(trace) ==
    \A k1, k2 \in 1..Len(trace) :
        ( /\ trace[k1].fact = trace[k2].fact
          /\ trace[k1].rule = trace[k2].rule
          /\ trace[k1].what = trace[k2].what ) => k1 = k2

\* an action is evaluated directly after the condition of its rule returned true for
\* the same fact, and not otherwise
ActionsFollowTrueConditions(trace) ==
    \A k \in 1..Len(trace) :
        trace[k].what = "action" =>
            /\ k > 1
            /\ trace[k - 1] = Event(trace[k].fact, trace[k].rule, "condition", "true")

\* the evaluations concern the pending facts and the rules of the set, fact by fact
WithinBuffer(trace, s) ==
    /\ \A k \in 1..Len(trace) :
          /\ trace[k].fact \in 1..Len(s.facts)
          /\ trace[k].rule \in 1..Len(GetRules(s.execution_set))
    /\ \A k1, k2 \in 1..Len(trace) : k1 <= k2 => trace[k1].fact <= trace[k2].fact

\* C38: execute() terminates; while it runs and when it has returned, each rule's
\* condition has been evaluated at most once per pending fact, and its action at most
\* once per fact and only directly after its condition returned true for that fact.
C38_TerminatesEvaluatingOnce ==
    /\ [](\A sid \in DOMAIN owners :
            /\ AtMostOnce(owners[sid].trace)
            /\ ActionsFollowTrueConditions(owners[sid].trace)
            /\ owners[sid].pc = "loop" => WithinBuffer(owners[sid].trace, owners[sid].pre))
    /\ []( (last.op = "execute" /\ last.raised = "none") =>
            /\ AtMostOnce(last.trace)
            /\ ActionsFollowTrueConditions(last.trace)
            /\ WithinBuffer(last.trace, last.pre) )
    /\ \A sid \in SessionIds :
          (sid \in DOMAIN owners /\ owners[sid].pc = "loop")
            ~> (last.op = "execute" /\ last.sid = sid /\ owners[sid].pc = "idle")

\* an execute() over two facts and three rules has returned after evaluating an action
\* for each fact and meeting a raising condition
C38_Witness ==
    /\ last.op = "execute"
    /\ last.raised = "none"
    /\ Len(last.pre.facts) = 2
    /\ Len(GetRules(last.pre.execution_set)) = 3
    /\ \A j \in 1..2 : \E k \in 1..Len(last.trace) :
          last.trace[k].fact = j /\ last.trace[k].what = "action"
    /\ \E k \in 1..Len(last.trace) : last.trace[k].out = "raise"

\* the names provider p's runtime lists, and the keys of the copy p's administrator hands out
RuntimeNames(p) == RuntimeGetRegistrations(RuntimeView(engines, p))
AdministratorKeys(p) == DOMAIN GetRegistrationsReturn(engines[p]).value

\* what provider p's runtime makes of uri
Resolved(p, uri) == RuntimeCreateRuleSession(RuntimeView(engines, p), uri, "omitted")

\* C37: at every moment the names a provider's runtime lists are the keys of what its
\* administrator's get_registrations() returns, and its runtime creates a session for
\* exactly these names. What either call returned was true of the registrations at the
\* time; a rule set registered with the administrator is resolved by the runtime at
\* once, to that rule set, and a deregistered name is resolved no longer.
C37_RuntimeSeesAdministrator ==
    /\ \A p \in DOMAIN engines :
          /\ RuntimeNames(p) = AdministratorKeys(p)
          /\ \A uri \in EngineNames \cup {"missing"} :
                /\ Resolved(p, uri).created <=> uri \in AdministratorKeys(p)
                /\ Resolved(p, uri).created =>
                      Resolved(p, uri).session.execution_set = engines[p][uri]
    /\ last.op = "runtime.get_registrations" =>
          last.ret = AdministratorKeys(last.arg.provider)
    /\ last.op = "administrator.get_registrations" =>
          DOMAIN last.ret = RuntimeNames(last.arg.provider)
    /\ (OnProvider /\ last.op = "register_rule_execution_set" /\ last.raised = "none") =>
          /\ last.arg.name.str \in RuntimeNames(last.arg.provider)
          /\ Resolved(last.arg.provider, last.arg.name.str).session.execution_set
                = last.arg.execution_set.set
    /\ (OnProvider /\ last.op = "deregister_rule_execution_set") =>
          /\ last.arg.name \notin RuntimeNames(last.arg.provider)
          /\ Resolved(last.arg.provider, last.arg.name).raised = "RuleValidationError"

\* a provider's runtime has listed a name that was registered after the provider was
\* constructed, while another provider has nothing registered
C37_Witness ==
    /\ last.op = "runtime.get_registrations"
    /\ last.ret # {}
    /\ \E q \in DOMAIN engines : engines[q] = NoRegistrations

\* C39: after initialize() the URIs "api", "inmemory" and "machine" resolve to one
\* provider. A rule set registered with the administrator obtained under any one of
\* them is resolved, to that rule set, by the runtime obtained under each of the three,
\* and a name deregistered through one of them is resolved through none.
C39_DefaultUrisShareProvider ==
    /\ \A u \in DefaultUris :
          /\ ManagerGet(providers, u) \in DOMAIN engines
          /\ ManagerGet(providers, u) = ManagerGet(providers, "api")
    /\ (OnProvider /\ last.op = "register_rule_execution_set" /\ last.raised = "none") =>
          \A u \in DefaultUris :
              /\ Resolved(ManagerGet(providers, u), last.arg.name.str).created
              /\ Resolved(ManagerGet(providers, u), last.arg.name.str).session.execution_set
                    = last.arg.execution_set.set
    /\ (OnProvider /\ last.op = "deregister_rule_execution_set") =>
          \A u \in DefaultUris :
              ~Resolved(ManagerGet(providers, u), last.arg.name).created

\* a rule set has replaced another under a name, registered through one of the URIs
C39_Witness ==
    /\ OnProvider
    /\ last.op = "register_rule_execution_set"
    /\ last.raised = "none"
    /\ last.arg.name.str \in DOMAIN last.pre.engines[last.arg.provider]
    /\ last.pre.engines[last.arg.provider][last.arg.name.str] # last.arg.execution_set.set
    /\ \A u \in DefaultUris : ManagerGet(providers, u) = last.arg.provider

\* the runtime errors of an expression that are no security matter: an undefined name, a
\* division by zero, a type error
RuntimeErrors == {"NameNotDefined", "ZeroDivisionError", "TypeError"}

RejectionTrees == {Tree.import, Tree.chain, Tree.lambda, Tree.compile, Tree.open}

\* C32: each expression of the rejection set (an import invocation, a
\* __class__/__bases__/__subclasses__ chain, a lambda, a compile call, an open call) is
\* rejected with SecurityError by the textual check taken alone and by the evaluator
\* taken alone, whatever the names are bound to; safe_eval raises SecurityError for it.
C32_BothLayersReject ==
    ( /\ last.op = "safe_eval"
      /\ last.arg.available
      /\ last.arg.tree \in RejectionTrees )
    => /\ PreFilter(Unparse(last.arg.tree))
       /\ LET alone == Evaluate(last.arg.tree, last.arg.names).outcome
          IN  /\ alone # "value"
              /\ EvaluationError(alone) = "SecurityError"
       /\ last.raised = "SecurityError"

\* the open call of the rejection set, evaluated while the caller binds the name open
C32_Witness ==
    /\ last.op = "safe_eval"
    /\ last.arg.available
    /\ last.arg.tree = Tree.open
    /\ last.arg.expression.text \in RejectionSet
    /\ Id.open \in DOMAIN last.arg.names
    /\ last.raised = "SecurityError"
    /\ { Unparse(t) : t \in RejectionTrees } = RejectionSet

\* the rules of the document, when it has a list of them
ItemsOf(data) == IF data.rules.kind = "list" THEN data.rules.items ELSE <<>>

\* a field the document does not have, or has as the empty str
Lacking(field) == field.kind = "missing" \/ (field.kind = "str" /\ field.text = <<>>)

\* the document lacks its name or its rules list, or one of its rules lacks a name, a
\* condition or an action, or holds an expression with a pattern the schema forbids
Defective(data) ==
    \/ Lacking(data.name)
    \/ data.rules.kind # "list"
    \/ \E i \in 1..Len(ItemsOf(data)) :
          LET rule == ItemsOf(data)[i]
          IN  \/ Lacking(rule.name) \/ Lacking(rule.condition) \/ Lacking(rule.action)
              \/ ValidateExpressionSafety(rule.condition.text)
              \/ ValidateExpressionSafety(rule.action.text)

\* a str of decimal digits
Numeral(text) ==
    /\ text # <<>>
    /\ \A i \in 1..Len(text) :
          text[i] \in {"0", "1", "2", "3", "4", "5", "6", "7", "8", "9"}

Rejected == last.raised = "RuleValidationError" /\ last.ret = NoExecutionSet

\* C33 as stated: from_dict rejects the whole document with RuleValidationError and
\* returns no rule set whenever the document is defective or the priority of one of its
\* rules is not an integer.
C33_RejectsNonIntegerPriority ==
    ( /\ last.op = "from_dict"
      /\ \/ Defective(last.arg)
         \/ \E i \in 1..Len(ItemsOf(last.arg)) :
               ItemsOf(last.arg)[i].priority.kind \notin {"missing", "int"} )
    => Rejected

\* C33, amended: from_dict rejects the whole document with RuleValidationError and
\* returns no rule set whenever the set name or the rules list is missing, a rule lacks
\* its name, condition or action, a condition or action holds a pattern the schema
\* forbids, or a priority is neither an integer nor a str that reads as one; a priority
\* written as a str of digits is accepted and read as that integer. One offending rule
\* rejects all rules of the document.
C33_RejectsDefectiveDocument ==
    /\ ( /\ last.op = "from_dict"
         /\ \/ Defective(last.arg)
            \/ \E i \in 1..Len(ItemsOf(last.arg)) :
                  LET priority == ItemsOf(last.arg)[i].priority
                  IN  priority.kind = "str" /\ ~Numeral(priority.text) )
       => Rejected
    /\ (last.op = "from_dict" /\ last.raised = "none") =>
          /\ Len(GetRules(last.ret)) = Len(ItemsOf(last.arg))
          /\ \A i \in 1..Len(ItemsOf(last.arg)) :
                LET priority == ItemsOf(last.arg)[i].priority
                IN  (priority.kind = "str" /\ priority.text = <<"1", "0">>) =>
                       \E k \in 1..Len(GetRules(last.ret)) : GetRules(last.ret)[k].priority = 10

\* a document of three rules, the second one without a condition, is rejected
C33_Witness ==
    /\ last.op = "from_dict"
    /\ Rejected
    /\ ~Lacking(last.arg.name)
    /\ Len(ItemsOf(last.arg)) = 3
    /\ ItemsOf(last.arg)[1] = Sound
    /\ ItemsOf(last.arg)[2] = [Sound EXCEPT !.condition = Absent]
    /\ ItemsOf(last.arg)[3] = Sound

\* the text safe_eval is given when the engine evaluates what the event names
EvaluatedText(e) ==
    LET rule == RanRules[e.rule]
    IN  Unparse(IF e.what = "condition" THEN rule.condition_expr ELSE rule.action_expr)

\* C36: no condition or action that execute() evaluates for a rule of a rule set that
\* from_dict loaded is rejected by the textual check of safe_eval: what that check
\* rejects, the schema validation has rejected when the document was loaded.
C36_LoadedRulesPassPreFilter ==
    (last.op = "execute") =>
        \A n \in 1..Len(last.trace) : ~PreFilter(EvaluatedText(last.trace[n]))

\* rule r fails on the fact: safe_eval raises for its condition, or its condition
\* holds and safe_eval raises for its action
FailsOn(r, fact) ==
    LET c == SafeEvalOf(TRUE, r.condition_expr, FactNames(fact))
        a == SafeEvalOf(TRUE, r.action_expr, FactNames(fact))
    IN  \/ c.raised # "none"
        \/ Truthy(c.value) /\ a.raised # "none"

\* the results owed for the facts when, for each fact, the rules that fail on it are
\* absent
RECURSIVE OutputsWithoutFailing(_, _, _)
OutputsWithoutFailing(rules, facts, strategy) ==
    IF facts = <<>>
    THEN <<>>
    ELSE OutputsWithoutRaising(SelectSeq(rules, LAMBDA r : ~FailsOn(r, Head(facts))),
                               Head(facts), strategy)
            \o OutputsWithoutFailing(rules, Tail(facts), strategy)

\* C35: when safe_eval raises for the condition or the action of a rule loaded from
\* YAML, execute() does not fail and returns, under ALL_MATCHES and under FIRST_MATCH,
\* the results it returns when the rule is absent for that fact.
C35_FailingRuleAsIfAbsent ==
    (last.op = "execute" /\ ~Pre.closed) =>
        /\ last.raised = "none"
        /\ last.ret = OutputsWithoutFailing(RanRules, RanFacts, StrategyOf(Pre.execution_set))

====
